---- MODULE Spec2Model ----
(***************************************************************************)
(* Design-pattern catalogue (code-everyday): state machines of the         *)
(* demonstration programs, translated from their JavaScript sources.       *)
(*                                                                         *)
(* Every demonstration is a program of its own (each source file ends by   *)
(* running its own clientCode and shares no object with any other), so the *)
(* variable `example` records which demonstration is running and every     *)
(* action belongs to exactly one of them.                                  *)
(*                                                                         *)
(* JavaScript strings are sequences of one-character strings, objects are  *)
(* records, arrays that the code mutates in place live in `heap` and are   *)
(* held by reference, `null` is the record NULL.                           *)
(***************************************************************************)
EXTENDS Integers, Sequences, FiniteSets, TLC

VARIABLES
  example,      \* the demonstration that is running
  lastOp,       \* the operation performed by the last step
  editor,       \* TextEditor (originator)
  history,      \* EditorHistory (caretaker): states, currentStateIndex
  ret,          \* value returned by the EditorHistory call of the last step (NULL if none)
  m,            \* memento held by the client: m = editor.save()
  snapE,        \* the editor state in which m was taken
  rt,           \* progress of a push.. / undo.. / redo.. round trip
  dropped,      \* the number of mementos the last push removed from states
  hero,         \* GameCharacter (originator); inventory and skills are references
  heap,         \* arrays held by reference: reference -> sequence
  mementos,     \* GameCharacterMemento objects: identity -> fields
  gm,           \* memento held by the client: gm = hero.save()
  snapG,        \* the character state in which gm was taken
  created,      \* the fields each GameCharacterMemento had when its constructor returned
  saveManager,  \* SaveManager (caretaker): savedGames
  weather,      \* WeatherStation (subject): observers
  market,       \* StockMarket (subject): observers, a Map observer -> stocks
  iter,         \* the iterator of the notify() in progress
  log,          \* update() calls and detach() calls of the latest notify()
  atStart,      \* the observers attached when the latest notify() began
  attachOrder,  \* the attached observers in the order of the attach calls that
                \* attached them; `again`: attach was called for it once more since
  coffee,       \* the decorators wrapped around a SimpleCoffee, innermost first
  fs,           \* the file system components, by object identity
  raised,       \* the error the last call threw, "none" if it returned
  instance,     \* Singleton.instance, the static property
  singletons,   \* the Singleton objects constructed so far, in order of construction
  returned,     \* the values the getInstance() calls returned, in order
  proxy,        \* DatabaseProxy
  sources,      \* the DatabaseSource objects constructed so far
  inflight,     \* the calls waiting for a timer, by slot
  store,        \* the real database: writes completed, calls received
  requests,     \* the number of calls the client has made on the proxy
  event,        \* what the last step was: operation, argument, outcome
  sinceSave,    \* cached: the queries cached since the last forwarded saveData
                \* completed; invalidated: the queries that saveData removed
  builder,      \* CarBuilder: car, a reference to the Car under construction
  cars,         \* the Car objects constructed so far
  built,        \* the cars returned so far: reference, who built it, its
                \* fields when it was returned, the fields the calls since the
                \* previous build() set
  since,        \* the calls on the builder since the previous build()
  memory,       \* the Document objects, arrays and plain objects made so far
  registry,     \* DocumentRegistry: documents, key -> reference to a Document
  origin,       \* how the newest Document was made: by new, clone() or
                \* createDocument, from which prototype, with which
                \* customizations
  events,       \* EventEmitter: events, name of an event -> array of callbacks
  unsubscribers,
                \* the functions on() has returned: eventName, callback
  emitted,       \* the callbacks the last emit called, in order
  adapters,     \* the ModernPaymentAdapter instances, by name
  clock,        \* what Date.now() gives
  payments,     \* what each processPayment that returned created: the
                \* adapter, the transactionId it returned, the id of its intent
  apiCalls,     \* the calls the last operation made to the ModernPaymentAPI
  response,     \* what the last operation of an adapter returned
  devices,      \* UniversalRemoteControl: devices, the TV, the radio, the speaker
  currentDeviceIndex,
                \* UniversalRemoteControl: currentDeviceIndex
  presses       \* the operations of the remote control so far

\* ------------------------------------------------------------------------
\* Bounds
\* ------------------------------------------------------------------------
MaxContent == 2       \* longest editor content explored
MaxStates == 3        \* longest EditorHistory.states explored
MaxInventory == 1     \* most items the character carries
MaxSaves == 1         \* most saves SaveManager keeps for a character
MaxChain == 4         \* most decorators wrapped around a coffee
MaxChildren == 2      \* most entries of a directory's children array
MaxObjects == 3       \* most Singleton objects constructed
MaxCalls == 3         \* most getInstance() calls recorded
MaxInFlight == 2      \* most proxy calls waiting for a timer at once
MaxRequests == 4      \* most calls made on the proxy
MaxCars == 3          \* most Car objects constructed
MaxSets == 2          \* most calls on the builder between two build() calls
MaxDocuments == 2     \* most Document objects made
MaxTags == 3          \* most items of a tags array that addTag is called on
MaxListeners == 2     \* most callbacks in the array of one event
MaxClock == 1         \* latest reading of Date.now()
MaxRandom == 1        \* largest Math.floor(Math.random() * 1000) drawn
MaxPayments == 3      \* most payments processed through the adapters
MaxPresses == 4       \* most operations of the remote control in one run
MaxDepth == 0         \* most '/' in the path of a directory that add is called on

\* ------------------------------------------------------------------------
\* Values
\* ------------------------------------------------------------------------
NULL == [type |-> "null"]

Min(a, b) == IF a < b THEN a ELSE b
Max(a, b) == IF a > b THEN a ELSE b

\* Texts the client types and fonts it selects
Texts == {<<"a">>, <<"b">>}
HistoryTexts == {<<"a">>}
Fonts == {[name |-> "Arial", size |-> 12], [name |-> "Times New Roman", size |-> 14]}
Positions == -1 .. (MaxContent + 1)
Counts == 0 .. 2

\* String.prototype.substring(start, end): both arguments are clamped to
\* 0..length and swapped when start > end.
Substring(s, start, end) ==
  LET a == Max(0, Min(start, Len(s)))
      b == Max(0, Min(end, Len(s)))
  IN SubSeq(s, Min(a, b) + 1, Max(a, b))

\* String.prototype.substring(start): up to the end of the string.
SubstringFrom(s, start) == Substring(s, start, Len(s))

\* ------------------------------------------------------------------------
\* TextEditor (originator) and TextEditorMemento
\* ------------------------------------------------------------------------
TextEditor_new ==
  [content |-> <<>>, cursorPosition |-> 0, selection |-> [start |-> 0, end |-> 0],
   fontName |-> "Arial", fontSize |-> 12]

TextEditor_hasSelection(e) == e.selection.start # e.selection.end

TextEditor_write(e, text) ==
  LET before == Substring(e.content, 0, e.cursorPosition)
      after == SubstringFrom(e.content, e.cursorPosition)
      cur == e.cursorPosition + Len(text)
  IN [e EXCEPT !.content = before \o text \o after,
               !.cursorPosition = cur,
               !.selection = [start |-> cur, end |-> cur]]

TextEditor_delete(e, count) ==
  LET d == IF TextEditor_hasSelection(e)
             THEN [e EXCEPT !.content = Substring(e.content, 0, e.selection.start)
                                         \o SubstringFrom(e.content, e.selection.end),
                            !.cursorPosition = e.selection.start]
             ELSE [e EXCEPT !.content = Substring(e.content, 0, e.cursorPosition)
                                         \o SubstringFrom(e.content, e.cursorPosition + count)]
  IN [d EXCEPT !.selection = [start |-> d.cursorPosition, end |-> d.cursorPosition]]

TextEditor_select(e, startPosition, endPosition) ==
  IF startPosition >= 0 /\ endPosition <= Len(e.content) /\ startPosition <= endPosition
    THEN [e EXCEPT !.selection = [start |-> startPosition, end |-> endPosition],
                   !.cursorPosition = endPosition]
    ELSE e

\* Variant: moves the cursor to the position whatever it is
TextEditor_moveCursor_unchecked(e, position) ==
  [e EXCEPT !.cursorPosition = position,
            !.selection = [start |-> position, end |-> position]]

TextEditor_moveCursor(e, position) ==
  IF position >= 0 /\ position <= Len(e.content)
    THEN [e EXCEPT !.cursorPosition = position,
                   !.selection = [start |-> position, end |-> position]]
    ELSE e

TextEditor_changeFont(e, fontName, fontSize) ==
  [e EXCEPT !.fontName = fontName, !.fontSize = fontSize]

\* new TextEditorMemento(content, cursorPosition, selection, fontName, fontSize).
\* _timestamp (the clock reading at construction) is written here only and
\* read by getDescription and getTimestamp only; it is not modelled.
TextEditorMemento_new(content, cursorPosition, selection, fontName, fontSize) ==
  [type |-> "TextEditorMemento", _content |-> content, _cursorPosition |-> cursorPosition,
   _selection |-> selection, _fontName |-> fontName, _fontSize |-> fontSize]

TextEditorMemento_getState(mem) ==
  [content |-> mem._content, cursorPosition |-> mem._cursorPosition,
   selection |-> mem._selection, fontName |-> mem._fontName, fontSize |-> mem._fontSize]

\* save(): the selection object is copied ({ ...this.selection }); the editor
\* never mutates a selection object in place, so the copy is the value.
TextEditor_save(e) ==
  TextEditorMemento_new(e.content, e.cursorPosition,
                        [start |-> e.selection.start, end |-> e.selection.end],
                        e.fontName, e.fontSize)

TextEditor_restore(e, memento) ==
  IF memento.type # "TextEditorMemento"
    THEN e
    ELSE LET state == TextEditorMemento_getState(memento)
         IN [content |-> state.content, cursorPosition |-> state.cursorPosition,
             selection |-> [start |-> state.selection.start, end |-> state.selection.end],
             fontName |-> state.fontName, fontSize |-> state.fontSize]

\* ------------------------------------------------------------------------
\* EditorHistory (caretaker).  states is 1-based here, currentStateIndex
\* keeps the 0-based value of the source (-1 when empty).
\* ------------------------------------------------------------------------
EditorHistory_new == [states |-> <<>>, currentStateIndex |-> -1]

\* Variant: appends without removing the states above the cursor
EditorHistory_push_keep(h, memento) ==
  [states |-> Append(h.states, memento), currentStateIndex |-> Len(h.states)]

EditorHistory_push(h, memento) ==
  LET kept == IF h.currentStateIndex < Len(h.states) - 1
                THEN SubSeq(h.states, 1, h.currentStateIndex + 1)
                ELSE h.states
      states == Append(kept, memento)
  IN [states |-> states, currentStateIndex |-> Len(states) - 1]

\* undo(), redo(), goToState(index) return the pair (history after, value returned)

\* Variant: hands back the state the cursor is leaving, not the one it arrives at
EditorHistory_undo_stale(h) ==
  IF h.currentStateIndex > 0
    THEN [h |-> [h EXCEPT !.currentStateIndex = h.currentStateIndex - 1],
          value |-> h.states[h.currentStateIndex + 1]]
    ELSE [h |-> h, value |-> NULL]

\* Variant: steps back from the first state too
EditorHistory_undo_first(h) ==
  IF h.currentStateIndex >= 0
    THEN [h |-> [h EXCEPT !.currentStateIndex = h.currentStateIndex - 1],
          value |-> IF h.currentStateIndex > 0 THEN h.states[h.currentStateIndex]
                    ELSE NULL]
    ELSE [h |-> h, value |-> NULL]

EditorHistory_undo(h) ==
  IF h.currentStateIndex > 0
    THEN [h |-> [h EXCEPT !.currentStateIndex = h.currentStateIndex - 1],
          value |-> h.states[h.currentStateIndex]]
    ELSE [h |-> h, value |-> NULL]

\* Variant: with the cursor on the last state, wraps around to the first
EditorHistory_redo_wrap(h) ==
  IF h.currentStateIndex < Len(h.states) - 1
    THEN [h |-> [h EXCEPT !.currentStateIndex = h.currentStateIndex + 1],
          value |-> h.states[h.currentStateIndex + 2]]
    ELSE IF Len(h.states) > 0
      THEN [h |-> [h EXCEPT !.currentStateIndex = 0], value |-> h.states[1]]
      ELSE [h |-> h, value |-> NULL]

EditorHistory_redo(h) ==
  IF h.currentStateIndex < Len(h.states) - 1
    THEN [h |-> [h EXCEPT !.currentStateIndex = h.currentStateIndex + 1],
          value |-> h.states[h.currentStateIndex + 2]]
    ELSE [h |-> h, value |-> NULL]

\* Variant: moves the cursor to the index whatever it is
EditorHistory_goToState_unchecked(h, index) ==
  IF index >= 0 /\ index < Len(h.states)
    THEN [h |-> [h EXCEPT !.currentStateIndex = index], value |-> h.states[index + 1]]
    ELSE [h |-> [h EXCEPT !.currentStateIndex = index], value |-> NULL]

EditorHistory_goToState(h, index) ==
  IF index >= 0 /\ index < Len(h.states)
    THEN [h |-> [h EXCEPT !.currentStateIndex = index], value |-> h.states[index + 1]]
    ELSE [h |-> h, value |-> NULL]

EditorHistory_clear(h) == [states |-> <<>>, currentStateIndex |-> -1]

\* ------------------------------------------------------------------------
\* GameCharacter (originator) and GameCharacterMemento
\* ------------------------------------------------------------------------
Items == {"Sword", "Potion"}
Skills == {"Fireball"}
Damages == {60}
Heals == {100}
Exps == {50, 100}
Points == {[x |-> 0, y |-> 0], [x |-> 10, y |-> 5]}
\* saveCharacter's label argument; <<>> is the empty string and also stands
\* for the default null: both are falsy and take the same branch.
LabelArgs == {<<>>, <<"Game Start">>}

\* Array.prototype.indexOf: 0-based index of the first occurrence, or -1
IndexOf(arr, x) ==
  IF \E i \in 1 .. Len(arr) : arr[i] = x
    THEN (CHOOSE i \in 1 .. Len(arr) : arr[i] = x /\ \A j \in 1 .. (i - 1) : arr[j] # x) - 1
    ELSE -1

\* Array.prototype.splice(index, 1)
Splice1(arr, index) == SubSeq(arr, 1, index) \o SubSeq(arr, index + 2, Len(arr))

Includes(arr, x) == \E i \in 1 .. Len(arr) : arr[i] = x

\* A fresh reference for a new array
Alloc(hp) == CHOOSE r \in 1 .. (Cardinality(DOMAIN hp) + 1) :
               r \notin DOMAIN hp /\ \A q \in 1 .. (r - 1) : q \in DOMAIN hp

\* new GameCharacter(name): inventory at reference 1, skills at reference 2
GameCharacter_new(name) ==
  [name |-> name, level |-> 1, health |-> 100, inventory |-> 1,
   position |-> [x |-> 0, y |-> 0], skills |-> 2]

GameCharacter_moveTo(c, x, y) == [c EXCEPT !.position = [x |-> x, y |-> y]]

GameCharacter_takeDamage(c, amount) == [c EXCEPT !.health = Max(0, c.health - amount)]

GameCharacter_heal(c, amount) == [c EXCEPT !.health = Min(100, c.health + amount)]

GameCharacter_gainExperience(c, exp) ==
  LET xpNeeded == c.level * 100
  IN IF exp >= xpNeeded
       THEN [c EXCEPT !.level = c.level + 1, !.health = 100]
       ELSE c

\* addItem, removeItem and learnSkill mutate the arrays in place: they
\* return the heap after the call
GameCharacter_addItem(c, hp, item) == [hp EXCEPT ![c.inventory] = Append(@, item)]

GameCharacter_removeItem(c, hp, item) ==
  LET index == IndexOf(hp[c.inventory], item)
  IN IF index # -1 THEN [hp EXCEPT ![c.inventory] = Splice1(@, index)] ELSE hp

GameCharacter_learnSkill(c, hp, skill) ==
  IF ~Includes(hp[c.skills], skill)
    THEN [hp EXCEPT ![c.skills] = Append(@, skill)]
    ELSE hp

\* `Save - ${name} (Lvl ${level})`
DefaultLabel(name, level) == <<"Save - ", name, " (Lvl ", ToString(level), ")">>

\* (_timestamp is not modelled, as for TextEditorMemento)
GameCharacterMemento_new(name, level, health, inventory, position, skills) ==
  [type |-> "GameCharacterMemento", _name |-> name, _level |-> level, _health |-> health,
   _inventory |-> inventory, _position |-> position, _skills |-> skills,
   _label |-> DefaultLabel(name, level)]

\* Variant: the memento keeps the character's own arrays (no copy)
GameCharacter_save_shared(c, hp) ==
  [memento |-> GameCharacterMemento_new(c.name, c.level, c.health, c.inventory,
                                        [x |-> c.position.x, y |-> c.position.y],
                                        c.skills),
   heap |-> hp]

\* save(): [...this.inventory] and [...this.skills] are fresh arrays.
\* Returns the memento and the heap holding the two copies.
GameCharacter_save(c, hp) ==
  LET r1 == Alloc(hp)
      hp1 == (r1 :> hp[c.inventory]) @@ hp
      r2 == Alloc(hp1)
      hp2 == (r2 :> hp[c.skills]) @@ hp1
  IN [memento |-> GameCharacterMemento_new(c.name, c.level, c.health, r1,
                                            [x |-> c.position.x, y |-> c.position.y],
                                            r2),
      heap |-> hp2]

\* getState(): the arrays and the position are copied, so the caller gets
\* the contents, never the memento's own arrays
GameCharacterMemento_getState(mem, hp) ==
  [name |-> mem._name, level |-> mem._level, health |-> mem._health,
   inventory |-> hp[mem._inventory],
   position |-> [x |-> mem._position.x, y |-> mem._position.y],
   skills |-> hp[mem._skills]]

GameCharacterMemento_setLabel(mem, label) == [mem EXCEPT !._label = label]

\* restore(memento): returns the character and the heap after the call
GameCharacter_restore(c, hp, memento) ==
  IF memento.type # "GameCharacterMemento"
    THEN [hero |-> c, heap |-> hp]
    ELSE LET state == GameCharacterMemento_getState(memento, hp)
         IN IF state.name # c.name
              THEN [hero |-> c, heap |-> hp]
              ELSE LET r1 == Alloc(hp)
                       hp1 == (r1 :> state.inventory) @@ hp
                       r2 == Alloc(hp1)
                       hp2 == (r2 :> state.skills) @@ hp1
                   IN [hero |-> [c EXCEPT !.level = state.level, !.health = state.health,
                                          !.inventory = r1,
                                          !.position = [x |-> state.position.x,
                                                        y |-> state.position.y],
                                          !.skills = r2],
                       heap |-> hp2]

\* References are addresses without meaning: after every call the arrays
\* still referred to are renumbered in the order hero.inventory,
\* hero.skills, then each memento's _inventory and _skills; arrays nothing
\* refers to any more are dropped.
SetMin(S) == CHOOSE x \in S : \A y \in S : x <= y

Holders(c, mems, r) ==
  (IF c.inventory = r THEN {1} ELSE {})
    \cup (IF c.skills = r THEN {2} ELSE {})
    \cup {2 * i + 1 : i \in {j \in DOMAIN mems : mems[j]._inventory = r}}
    \cup {2 * i + 2 : i \in {j \in DOMAIN mems : mems[j]._skills = r}}

Canon(c, mems, hp) ==
  LET live == {r \in DOMAIN hp : Holders(c, mems, r) # {}}
      first(r) == SetMin(Holders(c, mems, r))
      new(r) == 1 + Cardinality({q \in live : first(q) < first(r)})
      old(n) == CHOOSE r \in live : new(r) = n
  IN [hero |-> [c EXCEPT !.inventory = new(c.inventory), !.skills = new(c.skills)],
      mementos |-> [i \in DOMAIN mems |->
                      [mems[i] EXCEPT !._inventory = new(mems[i]._inventory),
                                      !._skills = new(mems[i]._skills)]],
      heap |-> [n \in 1 .. Cardinality(live) |-> hp[old(n)]]]

\* The character's observable state: its fields with the arrays' contents
CharacterState(c, hp) ==
  [name |-> c.name, level |-> c.level, health |-> c.health, inventory |-> hp[c.inventory],
   position |-> c.position, skills |-> hp[c.skills]]

\* ------------------------------------------------------------------------
\* SaveManager (caretaker): savedGames maps a character name to its saves
\* ------------------------------------------------------------------------
SaveManager_new == [savedGames |-> [n \in {} |-> <<>>]]

Truthy(label) == label # <<>>

\* A fresh identity for a new memento object
NewId(mems) == CHOOSE i \in 1 .. (Cardinality(DOMAIN mems) + 1) :
                 i \notin DOMAIN mems /\ \A q \in 1 .. (i - 1) : q \in DOMAIN mems

Ref(id) == [type |-> "ref", id |-> id]

\* saveCharacter(character, label): returns the manager, the memento
\* objects and the heap after the call, and the new memento's identity
SaveManager_saveCharacter(sm, c, mems, hp, label) ==
  LET s == GameCharacter_save(c, hp)
      id == NewId(mems)
      memento == IF Truthy(label) THEN GameCharacterMemento_setLabel(s.memento, label)
                                  ELSE s.memento
      games == IF c.name \notin DOMAIN sm.savedGames
                 THEN (c.name :> <<>>) @@ sm.savedGames
                 ELSE sm.savedGames
  IN [saveManager |-> [savedGames |-> [games EXCEPT ![c.name] = Append(@, id)]],
      mementos |-> (id :> memento) @@ mems,
      constructed |-> s.memento,
      heap |-> s.heap,
      id |-> id]

\* loadCharacter(character, index): returns the character and heap after the call
SaveManager_loadCharacter(sm, c, mems, hp, index) ==
  IF c.name \notin DOMAIN sm.savedGames
    THEN [hero |-> c, heap |-> hp]
    ELSE LET saves == sm.savedGames[c.name]
         IN IF index < 0 \/ index >= Len(saves)
              THEN [hero |-> c, heap |-> hp]
              ELSE GameCharacter_restore(c, hp, mems[saves[index + 1]])

\* deleteSave(characterName, index)
SaveManager_deleteSave(sm, characterName, index) ==
  IF characterName \notin DOMAIN sm.savedGames
    THEN sm
    ELSE LET saves == sm.savedGames[characterName]
         IN IF index < 0 \/ index >= Len(saves)
              THEN sm
              ELSE [savedGames |-> [sm.savedGames EXCEPT ![characterName] = Splice1(@, index)]]

\* Memento objects nothing refers to any more are dropped
CollectMementos(mems, held, sm) ==
  LET live == (IF held = NULL THEN {} ELSE {held.id})
                \cup UNION {{sm.savedGames[n][i] : i \in 1 .. Len(sm.savedGames[n])}
                             : n \in DOMAIN sm.savedGames}
  IN [i \in (DOMAIN mems) \cap live |-> mems[i]]

\* ------------------------------------------------------------------------
\* Round-trip bookkeeping: which of "k+1 pushes on an empty history, k
\* undos, k redos" the client has performed so far.  S holds, per push,
\* the memento pushed and the editor state it was saved in.
\* ------------------------------------------------------------------------
RtNew == [phase |-> "push", S |-> <<>>, i |-> 0, j |-> 0]
RtOff(r) == [phase |-> "off", S |-> <<>>, i |-> 0, j |-> 0]
RtK(r) == Len(r.S) - 1

RtPush(r, memento, state) ==
  IF r.phase = "push"
    THEN [r EXCEPT !.S = Append(@, [memento |-> memento, state |-> state])]
    ELSE RtOff(r)

RtUndo(r) ==
  IF r.phase = "push" /\ RtK(r) >= 1 THEN [r EXCEPT !.phase = "undo", !.i = 1]
  ELSE IF r.phase = "undo" /\ r.i < RtK(r) THEN [r EXCEPT !.i = r.i + 1]
  ELSE RtOff(r)

RtRedo(r) ==
  IF r.phase = "undo" /\ r.i = RtK(r) THEN [r EXCEPT !.phase = "redo", !.j = 1]
  ELSE IF r.phase = "redo" /\ r.j < RtK(r) THEN [r EXCEPT !.j = r.j + 1]
  ELSE RtOff(r)

\* ------------------------------------------------------------------------
\* Observer demonstration: WeatherStation (observers in an array) and
\* StockMarket (observers in a Map keyed by observer)
\* ------------------------------------------------------------------------
Observers == {"current", "statistics", "forecast"}
Symbols == {"AAPL", "MSFT"}
StockLists == {<<>>, <<"AAPL">>}

\* What an observer's update() does to the subject: nothing (the displays
\* of the demonstration) or a detach() call
Callbacks ==
  {[do |-> "nothing", target |-> "none"]}
    \cup {[do |-> "detach", target |-> o] : o \in Observers}

WeatherStation_new == [observers |-> <<>>]

\* Variant: attaches without looking for the observer first
WeatherStation_attach_always(observers, observer) == Append(observers, observer)

WeatherStation_attach(observers, observer) ==
  IF Includes(observers, observer) THEN observers ELSE Append(observers, observer)

WeatherStation_detach(observers, observer) ==
  LET observerIndex == IndexOf(observers, observer)
  IN IF observerIndex = -1 THEN observers ELSE Splice1(observers, observerIndex)

StockMarket_new == [observers |-> <<>>]

\* Map.prototype.has / set / delete on a Map held as its entries in insertion order
MapHas(entries, key) == \E i \in 1 .. Len(entries) : entries[i].key = key
MapIndex(entries, key) == CHOOSE i \in 1 .. Len(entries) : entries[i].key = key
MapSet(entries, key, value) ==
  IF MapHas(entries, key)
    THEN [entries EXCEPT ![MapIndex(entries, key)] = [key |-> key, value |-> value]]
    ELSE Append(entries, [key |-> key, value |-> value])
MapDelete(entries, key) ==
  IF MapHas(entries, key) THEN Splice1(entries, MapIndex(entries, key) - 1) ELSE entries
MapKeys(entries) == [i \in 1 .. Len(entries) |-> entries[i].key]

\* Variant: a re-attached observer moves to the end of the Map
StockMarket_attach_last(entries, observer, stocks) ==
  Append(MapDelete(entries, observer), [key |-> observer, value |-> stocks])

StockMarket_attach(entries, observer, stocks) == MapSet(entries, observer, stocks)

StockMarket_detach(entries, observer) ==
  IF ~MapHas(entries, observer) THEN entries ELSE MapDelete(entries, observer)

\* `for (const x of collection)`: the iterator holds the index of the next
\* element and compares it with the current length at every step.  An
\* array iterator keeps its index when an element is spliced out; a Map
\* iterator does not revisit or skip entries when one is deleted, i.e. its
\* index moves back by one when the deleted entry is already behind it.
IterNew == [active |-> FALSE, index |-> 0, symbol |-> "none"]

ArrayIterAfterSplice(index, removedAt) == index

\* Variant: the Map iterator behaves like the array iterator
MapIterAfterDelete_fixed(index, removedAt) == index

MapIterAfterDelete(index, removedAt) == IF removedAt <= index THEN index - 1 ELSE index

\* The notify loops pick the elements in this order
\* Variant: notifies the most recently attached observer first
NextOfArray_reversed(observers, index) == observers[Len(observers) - index]

NextOfArray(observers, index) == observers[index + 1]

\* ------------------------------------------------------------------------
\* Decorator demonstration: costs are JavaScript numbers (IEEE 754 doubles)
\* and `+` is the double addition, which rounds to 53 significant bits.
\* A double between 1 and 16 is held exactly, as the count of units of
\* 2^-55 it is made of, written in four digits of base 2^15, lowest first.
\* ------------------------------------------------------------------------
Base == 2^15

\* The number literals of the source, as the doubles they denote
Double_2_0 == <<0, 0, 0, 2048>>                \* 2.0 = 0x1.0000000000000p+1
Double_0_5 == <<0, 0, 0, 512>>                 \* 0.5 = 0x1.0000000000000p-1
Double_0_2 == <<6554, 13107, 26214, 204>>      \* 0.2 = 0x1.999999999999ap-3
Double_0_7 == <<6552, 13107, 26214, 716>>      \* 0.7 = 0x1.6666666666666p-1
Double_0_6 == <<19660, 6553, 13107, 614>>      \* 0.6 = 0x1.3333333333333p-1

\* Carries moved up; the highest digit keeps what is left
Normalize(d) ==
  LET c1 == d[1] \div Base
      c2 == (d[2] + c1) \div Base
      c3 == (d[3] + c2) \div Base
  IN <<d[1] % Base, (d[2] + c1) % Base, (d[3] + c2) % Base, d[4] + c3>>

\* The unit in the last place of a double of this magnitude, in units of 2^-55
Ulp(d) ==
  IF d[4] < 2048 THEN 8          \* [1, 2)
  ELSE IF d[4] < 4096 THEN 16    \* [2, 4)
  ELSE IF d[4] < 8192 THEN 32    \* [4, 8)
  ELSE 64                        \* [8, 16)

\* Round to nearest, ties to even
RoundToDouble(d) ==
  LET q == Ulp(d)
      r == d[1] % q
      down == <<d[1] - r, d[2], d[3], d[4]>>
      up == Normalize(<<d[1] - r + q, d[2], d[3], d[4]>>)
      odd == ((d[1] - r) \div q) % 2 = 1
  IN IF 2 * r > q \/ (2 * r = q /\ odd) THEN up ELSE down

\* a + b of two doubles
DoubleAdd(a, b) ==
  RoundToDouble(Normalize(<<a[1] + b[1], a[2] + b[2], a[3] + b[3], a[4] + b[4]>>))

\* The double a decimal literal of `cents` hundredths denotes (2.4 for 240):
\* cents * 2^55 / 100 rounded to a multiple of the unit in the last place
DoubleOfCents(cents) ==
  LET q == IF cents < 200 THEN 8 ELSE IF cents < 400 THEN 16
           ELSE IF cents < 800 THEN 32 ELSE 64
      d == 100 * q
      n4 == cents * 1024
      q4 == n4 \div d
      r4 == n4 % d
      q3 == (r4 * Base) \div d
      r3 == (r4 * Base) % d
      q2 == (r3 * Base) \div d
      r2 == (r3 * Base) % d
      q1 == (r2 * Base) \div d
      r1 == (r2 * Base) % d
      up == 2 * r1 > d \/ (2 * r1 = d /\ q1 % 2 = 1)
  IN Normalize(<<(q1 + (IF up THEN 1 ELSE 0)) * q, q2 * q, q3 * q, q4 * q>>)

Decorators == {"Milk", "Sugar", "WhippedCream", "VanillaSyrup"}

SimpleCoffee_getCost == Double_2_0
SimpleCoffee_getDescription == <<"Simple coffee">>

\* CoffeeDecorator.getCost: the wrapped coffee's cost, unchanged
CoffeeDecorator_getCost(inner) == inner

MilkDecorator_getCost(inner) == DoubleAdd(inner, Double_0_5)
MilkDecorator_getDescription(inner) == inner \o <<", with milk">>
SugarDecorator_getCost(inner) == DoubleAdd(inner, Double_0_2)
SugarDecorator_getDescription(inner) == inner \o <<", with sugar">>
WhippedCreamDecorator_getCost(inner) == DoubleAdd(inner, Double_0_7)
WhippedCreamDecorator_getDescription(inner) == inner \o <<", with whipped cream">>
VanillaSyrupDecorator_getCost(inner) == DoubleAdd(inner, Double_0_6)
VanillaSyrupDecorator_getDescription(inner) == inner \o <<", with vanilla syrup">>

\* coffee.getCost() and coffee.getDescription() of a chain: each decorator
\* asks the coffee it wraps and adds its own part
RECURSIVE Coffee_getCost(_)
Coffee_getCost(chain) ==
  IF chain = <<>> THEN SimpleCoffee_getCost
  ELSE LET inner == Coffee_getCost(SubSeq(chain, 1, Len(chain) - 1))
           outer == chain[Len(chain)]
       IN CASE outer = "Milk" -> MilkDecorator_getCost(inner)
            [] outer = "Sugar" -> SugarDecorator_getCost(inner)
            [] outer = "WhippedCream" -> WhippedCreamDecorator_getCost(inner)
            [] outer = "VanillaSyrup" -> VanillaSyrupDecorator_getCost(inner)

RECURSIVE Coffee_getDescription(_)
Coffee_getDescription(chain) ==
  IF chain = <<>> THEN SimpleCoffee_getDescription
  ELSE LET inner == Coffee_getDescription(SubSeq(chain, 1, Len(chain) - 1))
           outer == chain[Len(chain)]
       IN CASE outer = "Milk" -> MilkDecorator_getDescription(inner)
            [] outer = "Sugar" -> SugarDecorator_getDescription(inner)
            [] outer = "WhippedCream" -> WhippedCreamDecorator_getDescription(inner)
            [] outer = "VanillaSyrup" -> VanillaSyrupDecorator_getDescription(inner)

\* ------------------------------------------------------------------------
\* Composite demonstration: File, Directory and ProjectDirectory objects.
\* Strings are sequences of characters; the children array holds object
\* identities, as the JavaScript array holds references.
\* ------------------------------------------------------------------------
Components == {"root", "lib", "app", "main", "notes"}

File_new(name, size) ==
  [class |-> "File", name |-> name, size |-> size, parentPath |-> <<>>]
Directory_new(name) ==
  [class |-> "Directory", name |-> name, children |-> <<>>, parentPath |-> <<>>]
ProjectDirectory_new(name) ==
  [class |-> "ProjectDirectory", name |-> name, children |-> <<>>,
   parentPath |-> <<>>]

\* FileSystemFactory.createDirectory / createProject / createFile
FileSystemFactory_create ==
  [c \in Components |->
     CASE c = "root" -> Directory_new(<<"r", "o", "o", "t">>)
       [] c = "lib" -> Directory_new(<<"l", "i", "b", ".", "j", "s">>)
       [] c = "app" -> ProjectDirectory_new(<<"a", "p", "p">>)
       [] c = "main" -> File_new(<<"m", "a", "i", "n", ".", "j", "s">>, 8192)
       [] c = "notes" -> File_new(<<"n", "o", "t", "e", "s", ".", "m", "d">>, 1024)]

Extensions == {<<".", "j", "s">>, <<".", "m", "d">>, <<"s">>, <<>>}

Component_getName(o) == o.name
Component_getType(o) ==
  CASE o.class = "File" -> "file"
    [] o.class = "Directory" -> "directory"
    [] o.class = "ProjectDirectory" -> "project"
Component_isLeaf(o) == o.class = "File"

\* parentPath ? `${parentPath}/${name}` : name   (the empty string is falsy)
Component_getPath(o) ==
  IF o.parentPath # <<>> THEN o.parentPath \o <<"/">> \o o.name ELSE o.name

\* String.prototype.endsWith
EndsWith(str, suffix) ==
  /\ Len(suffix) <= Len(str)
  /\ SubSeq(str, Len(str) - Len(suffix) + 1, Len(str)) = suffix

\* A recursion deeper than every chain of distinct components has come
\* back to a directory it is already in and never returns: the engine
\* ends it with RangeError (Maximum call stack size exceeded).
StackLimit == Cardinality(Components) + 1
RangeError == [threw |-> TRUE, value |-> "RangeError"]
Returned(v) == [threw |-> FALSE, value |-> v]

File_getSize(o) == o.size

\* children.reduce((total, child) => total + child.getSize(), 0)
RECURSIVE Reduce_getSize(_, _, _, _, _)
RECURSIVE Component_getSize(_, _, _)
Component_getSize(f, c, depth) ==
  IF depth > StackLimit THEN RangeError
  ELSE IF f[c].class = "File" THEN Returned(File_getSize(f[c]))
  ELSE Reduce_getSize(f, f[c].children, 1, 0, depth)
Reduce_getSize(f, children, i, total, depth) ==
  IF i > Len(children) THEN Returned(total)
  ELSE LET size == Component_getSize(f, children[i], depth + 1)
       IN IF size.threw THEN RangeError
          ELSE Reduce_getSize(f, children, i + 1, total + size.value, depth)

Directory_getSize(f, d) == Component_getSize(f, d, 1)

\* children.reduce((count, child) => child.getType() === 'file'
\*   ? count + 1 : count + child.countFiles(), 0)
RECURSIVE Reduce_countFiles(_, _, _, _, _)
RECURSIVE Directory_countFiles(_, _, _)
Directory_countFiles(f, d, depth) ==
  IF depth > StackLimit THEN RangeError
  ELSE Reduce_countFiles(f, f[d].children, 1, 0, depth)
Reduce_countFiles(f, children, i, count, depth) ==
  IF i > Len(children) THEN Returned(count)
  ELSE IF Component_getType(f[children[i]]) = "file"
       THEN Reduce_countFiles(f, children, i + 1, count + 1, depth)
       ELSE LET below == Directory_countFiles(f, children[i], depth + 1)
            IN IF below.threw THEN RangeError
               ELSE Reduce_countFiles(f, children, i + 1, count + below.value,
                                      depth)

\* children.reduce((count, child) => child.getType() === 'directory'
\*   ? count + 1 + child.countDirectories() : count, 0)
RECURSIVE Reduce_countDirectories(_, _, _, _, _)
RECURSIVE Directory_countDirectories(_, _, _)
Directory_countDirectories(f, d, depth) ==
  IF depth > StackLimit THEN RangeError
  ELSE Reduce_countDirectories(f, f[d].children, 1, 0, depth)
Reduce_countDirectories(f, children, i, count, depth) ==
  IF i > Len(children) THEN Returned(count)
  ELSE IF Component_getType(f[children[i]]) = "directory"
       THEN LET below == Directory_countDirectories(f, children[i], depth + 1)
            IN IF below.threw THEN RangeError
               ELSE Reduce_countDirectories(f, children, i + 1,
                                            count + 1 + below.value, depth)
       ELSE Reduce_countDirectories(f, children, i + 1, count, depth)

\* The predicate of findByExtension
ByExtension(o, extension) ==
  Component_getType(o) = "file" /\ EndsWith(Component_getName(o), extension)

\* Directory.find with the predicate of findByExtension
RECURSIVE ForEach_find(_, _, _, _, _, _)
RECURSIVE Directory_find(_, _, _, _)
Directory_find(f, d, extension, depth) ==
  IF depth > StackLimit THEN RangeError
  ELSE ForEach_find(f, f[d].children, 1,
                    IF ByExtension(f[d], extension) THEN <<d>> ELSE <<>>,
                    extension, depth)
ForEach_find(f, children, i, results, extension, depth) ==
  IF i > Len(children) THEN Returned(results)
  ELSE LET child == children[i]
       IN IF Component_isLeaf(f[child])
          THEN ForEach_find(f, children, i + 1,
                 IF ByExtension(f[child], extension)
                 THEN Append(results, child) ELSE results,
                 extension, depth)
          ELSE LET found == Directory_find(f, child, extension, depth + 1)
               IN IF found.threw THEN RangeError
                  ELSE ForEach_find(f, children, i + 1,
                                    results \o found.value, extension, depth)

Directory_findByExtension(f, d, extension) == Directory_find(f, d, extension, 1)

\* component.parentPath = this.getPath(); this.children.push(component)
Directory_add(f, d, component) ==
  LET path == Component_getPath(f[d])
      g == [f EXCEPT ![component].parentPath = path]
  IN [g EXCEPT ![d].children = Append(@, component)]

\* indexOf, then splice(index, 1) when found
Directory_remove(f, d, component) ==
  LET index == IndexOf(f[d].children, component)
  IN IF index # -1 THEN [f EXCEPT ![d].children = Splice1(@, index)] ELSE f

\* ------------------------------------------------------------------------
\* Singleton demonstration. Objects are known by identity: the k-th object
\* constructed is ObjRef(k).
\* ------------------------------------------------------------------------
UNDEFINED == [type |-> "undefined"]
ObjRef(k) == [type |-> "object", id |-> k]
\* if (value): undefined is falsy, an object is truthy
ToBoolean(value) == value.type = "object"

Datas == {[type |-> "string", value |-> "Some data set on singleton1"]}

\* new Singleton() without the check of the static instance
Singleton_constructor_unchecked(inst, objs) ==
  [threw |-> FALSE, objects |-> Append(objs, [data |-> UNDEFINED]),
   this |-> ObjRef(Len(objs) + 1)]

\* new Singleton(): throws when Singleton.instance is set
Singleton_constructor(inst, objs) ==
  IF ToBoolean(inst)
  THEN [threw |-> TRUE, objects |-> objs, this |-> UNDEFINED]
  ELSE [threw |-> FALSE, objects |-> Append(objs, [data |-> UNDEFINED]),
        this |-> ObjRef(Len(objs) + 1)]

\* getInstance() that constructs and forgets to keep the instance
Singleton_getInstance_unassigned(inst, objs) ==
  LET c == Singleton_constructor(inst, objs)
  IN [instance |-> inst, objects |-> c.objects, value |-> c.this]

\* Singleton.getInstance()
Singleton_getInstance(inst, objs) ==
  IF ~ToBoolean(inst)
  THEN LET c == Singleton_constructor(inst, objs)
       IN [instance |-> c.this, objects |-> c.objects, value |-> c.this]
  ELSE [instance |-> inst, objects |-> objs, value |-> inst]

\* ------------------------------------------------------------------------
\* Proxy demonstration: DatabaseProxy in front of a DatabaseSource. getData
\* and saveData are async: a call runs to its first timer (setTimeout) when
\* it is made and is resumed when the timer fires. Awaits of promises that
\* are already settled resume in the same task, before any timer, and are
\* part of the step they follow.
\* ------------------------------------------------------------------------
Queries == {"SELECT * FROM users", "SELECT * FROM products"}
AccessLevels == {"read", "write", "admin"}
\* Arguments of saveData: an object, null, a string
SaveArgs == {[type |-> "object"], NULL, [type |-> "string"]}
DATE == [type |-> "Date"]

\* Map.prototype.has / set / clear, a Map being a function on its keys
Map_has(map, key) == key \in DOMAIN map
Map_set(map, key, value) ==
  [k \in DOMAIN map \cup {key} |-> IF k = key THEN value ELSE map[k]]
Map_clear == <<>>

DatabaseSource_new == [isConnected |-> FALSE]

DatabaseProxy_new(accessLevel) ==
  [accessLevel |-> accessLevel, realDatabase |-> NULL, cache |-> Map_clear,
   cacheHits |-> 0, cacheMisses |-> 0, lastAccess |-> NULL]

\* getRealDatabase() that constructs a DatabaseSource on every call
DatabaseProxy_getRealDatabase_always(p, srcs) ==
  [proxy |-> [p EXCEPT !.realDatabase = ObjRef(Len(srcs) + 1)],
   sources |-> Append(srcs, DatabaseSource_new),
   value |-> ObjRef(Len(srcs) + 1)]

\* getRealDatabase(): the real database, constructed on first use
DatabaseProxy_getRealDatabase(p, srcs) ==
  IF p.realDatabase = NULL
  THEN [proxy |-> [p EXCEPT !.realDatabase = ObjRef(Len(srcs) + 1)],
        sources |-> Append(srcs, DatabaseSource_new),
        value |-> ObjRef(Len(srcs) + 1)]
  ELSE [proxy |-> p, sources |-> srcs, value |-> p.realDatabase]

\* checkAccess(operation) that lets every operation pass
DatabaseProxy_checkAccess_open(p, operation) ==
  [proxy |-> [p EXCEPT !.lastAccess = DATE], value |-> TRUE]

\* checkAccess(operation)
DatabaseProxy_checkAccess(p, operation) ==
  [proxy |-> [p EXCEPT !.lastAccess = DATE],
   value |-> ~(operation = "write" /\ p.accessLevel # "write")]

\* DatabaseSource.getData / saveData up to the first timer: connect() when
\* not connected, else the delay of the operation itself
DatabaseSource_call(src, operation) ==
  IF ~src.isConnected THEN "connecting" ELSE operation

\* DatabaseSource.connect() after its timer
DatabaseSource_connect(src) == [src EXCEPT !.isConnected = TRUE]
\* DatabaseSource.disconnect() after its timer
DatabaseSource_disconnect(src) == [src EXCEPT !.isConnected = FALSE]

\* getData(query) up to its first timer
DatabaseProxy_getData(p, srcs, query) ==
  LET access == DatabaseProxy_checkAccess(p, "read")
      q == access.proxy
  IN IF ~access.value
     THEN [proxy |-> q, sources |-> srcs, outcome |-> "denied",
           value |-> NULL, database |-> NULL]
     ELSE IF Map_has(q.cache, query)
     THEN [proxy |-> [q EXCEPT !.cacheHits = @ + 1], sources |-> srcs,
           outcome |-> "hit", value |-> q.cache[query], database |-> NULL]
     ELSE LET real == DatabaseProxy_getRealDatabase(
                        [q EXCEPT !.cacheMisses = @ + 1], srcs)
          IN [proxy |-> real.proxy, sources |-> real.sources,
              outcome |-> "miss", value |-> NULL, database |-> real.value]

\* getData(query) from the result of the real database on
DatabaseProxy_getData_resume(p, query, result) ==
  [p EXCEPT !.cache = Map_set(@, query, result)]

\* saveData(data) up to its first timer
DatabaseProxy_saveData(p, srcs, data) ==
  LET access == DatabaseProxy_checkAccess(p, "write")
      q == access.proxy
  IN IF ~access.value
     THEN [proxy |-> q, sources |-> srcs, outcome |-> "denied",
           database |-> NULL]
     ELSE IF data = NULL \/ data.type # "object"
     THEN [proxy |-> q, sources |-> srcs, outcome |-> "invalid",
           database |-> NULL]
     ELSE LET real == DatabaseProxy_getRealDatabase(q, srcs)
          IN [proxy |-> real.proxy, sources |-> real.sources,
              outcome |-> "forwarded", database |-> real.value]

\* saveData(data) from the result of the real database on, without the
\* invalidation
DatabaseProxy_saveData_resume_keep(p) == p

\* saveData(data) from the result of the real database on
DatabaseProxy_saveData_resume(p) == [p EXCEPT !.cache = Map_clear]

\* clearCache()
DatabaseProxy_clearCache(p) == [p EXCEPT !.cache = Map_clear]

\* ------------------------------------------------------------------------
\* Builder demonstration: Car, CarBuilder, CarDirector. Every setter
\* returns the builder itself; the operators return the Car objects after
\* the call.
\* ------------------------------------------------------------------------
Car_new ==
  [make |-> "", model |-> "", year |-> 0, color |-> "", engine |-> "",
   transmission |-> "", features |-> <<>>, safetyOptions |-> <<>>,
   interiorPackage |-> "", navigationSystem |-> FALSE, warranties |-> <<>>]

\* reset(): this.car = new Car()
CarBuilder_reset(b, cs) ==
  [builder |-> [b EXCEPT !.car = ObjRef(Len(cs) + 1)],
   cars |-> Append(cs, Car_new)]

\* new CarBuilder()
CarBuilder_new == CarBuilder_reset([car |-> NULL], <<>>)

CarBuilder_setMake(b, cs, make) == [cs EXCEPT ![b.car.id].make = make]
CarBuilder_setModel(b, cs, model) == [cs EXCEPT ![b.car.id].model = model]
CarBuilder_setYear(b, cs, year) == [cs EXCEPT ![b.car.id].year = year]
CarBuilder_setColor(b, cs, color) == [cs EXCEPT ![b.car.id].color = color]
CarBuilder_setEngine(b, cs, engine) == [cs EXCEPT ![b.car.id].engine = engine]
CarBuilder_setTransmission(b, cs, transmission) ==
  [cs EXCEPT ![b.car.id].transmission = transmission]
CarBuilder_addFeature(b, cs, feature) ==
  [cs EXCEPT ![b.car.id].features = Append(@, feature)]
CarBuilder_addSafetyOption(b, cs, option) ==
  [cs EXCEPT ![b.car.id].safetyOptions = Append(@, option)]
CarBuilder_setInteriorPackage(b, cs, interiorType) ==
  [cs EXCEPT ![b.car.id].interiorPackage = interiorType]
CarBuilder_includeNavigationSystem(b, cs) ==
  [cs EXCEPT ![b.car.id].navigationSystem = TRUE]
CarBuilder_addWarranty(b, cs, warranty) ==
  [cs EXCEPT ![b.car.id].warranties = Append(@, warranty)]

\* build() that hands the car out and keeps building on it
CarBuilder_build_noreset(b, cs) ==
  [builder |-> b, cars |-> cs, value |-> b.car]

\* build(): const car = this.car; this.reset(); return car
CarBuilder_build(b, cs) ==
  LET car == b.car
      r == CarBuilder_reset(b, cs)
  IN [builder |-> r.builder, cars |-> r.cars, value |-> car]

\* CarDirector.constructEconomyCar()
CarDirector_constructEconomyCar(b, cs) ==
  LET c0 == cs
      c1 == CarBuilder_setMake(b, c0, "Honda")
      c2 == CarBuilder_setModel(b, c1, "Civic")
      c3 == CarBuilder_setYear(b, c2, 2023)
      c4 == CarBuilder_setColor(b, c3, "Silver")
      c5 == CarBuilder_setEngine(b, c4, "1.5L 4-Cylinder")
      c6 == CarBuilder_setTransmission(b, c5, "CVT")
      c7 == CarBuilder_addFeature(b, c6, "Bluetooth")
      c8 == CarBuilder_addFeature(b, c7, "Backup Camera")
      c9 == CarBuilder_addSafetyOption(b, c8, "Anti-lock Brakes")
      c10 == CarBuilder_addSafetyOption(b, c9, "Airbags")
      c11 == CarBuilder_setInteriorPackage(b, c10, "Cloth Standard")
      c12 == CarBuilder_addWarranty(b, c11, "3-year/36,000-mile basic")
  IN CarBuilder_build(b, c12)

\* CarDirector.constructLuxuryCar()
CarDirector_constructLuxuryCar(b, cs) ==
  LET c0 == cs
      c1 == CarBuilder_setMake(b, c0, "Mercedes-Benz")
      c2 == CarBuilder_setModel(b, c1, "S-Class")
      c3 == CarBuilder_setYear(b, c2, 2023)
      c4 == CarBuilder_setColor(b, c3, "Black")
      c5 == CarBuilder_setEngine(b, c4, "3.0L V6 Turbo")
      c6 == CarBuilder_setTransmission(b, c5, "9-speed Automatic")
      c7 == CarBuilder_addFeature(b, c6, "Bluetooth")
      c8 == CarBuilder_addFeature(b, c7, "Backup Camera")
      c9 == CarBuilder_addFeature(b, c8, "Heated Seats")
      c10 == CarBuilder_addFeature(b, c9, "Sunroof")
      c11 == CarBuilder_addFeature(b, c10, "Premium Sound System")
      c12 == CarBuilder_addSafetyOption(b, c11, "Anti-lock Brakes")
      c13 == CarBuilder_addSafetyOption(b, c12, "Airbags")
      c14 == CarBuilder_addSafetyOption(b, c13, "Lane Departure Warning")
      c15 == CarBuilder_addSafetyOption(b, c14, "Blind Spot Monitoring")
      c16 == CarBuilder_addSafetyOption(b, c15, "Automatic Emergency Braking")
      c17 == CarBuilder_setInteriorPackage(b, c16, "Leather Premium")
      c18 == CarBuilder_includeNavigationSystem(b, c17)
      c19 == CarBuilder_addWarranty(b, c18, "4-year/50,000-mile basic")
      c20 == CarBuilder_addWarranty(b, c19, "10-year powertrain")
  IN CarBuilder_build(b, c20)

\* CarDirector.constructSportsCar()
CarDirector_constructSportsCar(b, cs) ==
  LET c0 == cs
      c1 == CarBuilder_setMake(b, c0, "Porsche")
      c2 == CarBuilder_setModel(b, c1, "911")
      c3 == CarBuilder_setYear(b, c2, 2023)
      c4 == CarBuilder_setColor(b, c3, "Red")
      c5 == CarBuilder_setEngine(b, c4, "3.0L Twin-Turbo Flat-6")
      c6 == CarBuilder_setTransmission(b, c5, "8-speed PDK")
      c7 == CarBuilder_addFeature(b, c6, "Sport Exhaust")
      c8 == CarBuilder_addFeature(b, c7, "Sport Suspension")
      c9 == CarBuilder_addFeature(b, c8, "Performance Brakes")
      c10 == CarBuilder_addFeature(b, c9, "Sport Chronograph")
      c11 == CarBuilder_addSafetyOption(b, c10, "Anti-lock Brakes")
      c12 == CarBuilder_addSafetyOption(b, c11, "Airbags")
      c13 == CarBuilder_addSafetyOption(b, c12, "Stability Control")
      c14 == CarBuilder_setInteriorPackage(b, c13, "Sport Leather")
      c15 == CarBuilder_includeNavigationSystem(b, c14)
      c16 == CarBuilder_addWarranty(b, c15, "4-year/50,000-mile basic")
  IN CarBuilder_build(b, c16)

\* The calls the client makes on the builder
ClientCalls ==
  {[op |-> "setMake", arg |-> "Toyota"],
   [op |-> "addFeature", arg |-> "Apple CarPlay"],
   [op |-> "includeNavigationSystem", arg |-> NULL],
   [op |-> "addWarranty", arg |-> "5-year/60,000-mile powertrain"]}

\* A client call on the builder
CarBuilder_call(b, cs, call) ==
  CASE call.op = "setMake" -> CarBuilder_setMake(b, cs, call.arg)
    [] call.op = "addFeature" -> CarBuilder_addFeature(b, cs, call.arg)
    [] call.op = "includeNavigationSystem" ->
         CarBuilder_includeNavigationSystem(b, cs)
    [] call.op = "addWarranty" -> CarBuilder_addWarranty(b, cs, call.arg)

\* ------------------------------------------------------------------------
\* Prototype: Document and DocumentRegistry
\* ------------------------------------------------------------------------
\* Values a metadata property holds in the demonstration or can be given
Str(s) == [type |-> "string", str |-> s]
Num(n) == [type |-> "number", num |-> n]
NaN == [type |-> "number", nan |-> TRUE]
\* Date.prototype.toJSON: the ISO string of the date
Date_toJSON == Str("2023-01-01T00:00:00.000Z")

\* JSON.stringify of a property value, parsed back: NaN is written as null,
\* a Date as its ISO string; strings and finite numbers come back as they are
JSON_value(v) ==
  CASE v = NaN -> NULL
    [] v = DATE -> Date_toJSON
    [] OTHER -> v
\* JSON.parse(JSON.stringify(obj)) of an object, a function on its keys: a
\* property whose value is undefined is left out
JSON_parse_stringify(obj) ==
  [k \in {key \in DOMAIN obj : obj[key] # UNDEFINED} |-> JSON_value(obj[k])]

\* The heap: the Document objects, the arrays and the plain objects made so
\* far; a reference is the position in its sequence
Heap_new == [documents |-> <<>>, arrays |-> <<>>, objects |-> <<>>]
Array_new(h, items) == [h EXCEPT !.arrays = Append(@, items)]
Object_new(h, obj) == [h EXCEPT !.objects = Append(@, obj)]

\* new Document(title, content, author, tags, metadata): tags and metadata
\* are references to the array and the object the caller passed
Document_new(h, title, content, author, tags, metadata) ==
  [h EXCEPT !.documents = Append(@,
     [title |-> title, content |-> content, author |-> author,
      tags |-> tags, metadata |-> metadata,
      createdAt |-> DATE, updatedAt |-> DATE])]

\* Prototype.clone(): a new object with the own properties of this one, the
\* same values and the same references
Prototype_clone(h, this) ==
  [heap |-> [h EXCEPT !.documents = Append(@, h.documents[this])],
   value |-> Len(h.documents) + 1]

\* Document.clone()
Document_clone(h, this) ==
  LET c == Prototype_clone(h, this)
      clone == c.value
      h1 == Array_new(c.heap, c.heap.arrays[c.heap.documents[this].tags])
      h2 == [h1 EXCEPT !.documents[clone].tags = Len(h1.arrays)]
      h3 == Object_new(h2,
              JSON_parse_stringify(h2.objects[h2.documents[this].metadata]))
      h4 == [h3 EXCEPT !.documents[clone].metadata = Len(h3.objects),
                       !.documents[clone].createdAt = DATE,
                       !.documents[clone].updatedAt = DATE]
  IN [heap |-> h4, value |-> clone]

\* Array.prototype.includes
Array_includes(array, item) == \E i \in 1 .. Len(array) : array[i] = item

Document_edit(h, this, newContent) ==
  [h EXCEPT !.documents[this].content = newContent,
            !.documents[this].updatedAt = DATE]

Document_addTag(h, this, tag) ==
  IF ~Array_includes(h.arrays[h.documents[this].tags], tag)
  THEN [h EXCEPT !.arrays[h.documents[this].tags] = Append(@, tag),
                 !.documents[this].updatedAt = DATE]
  ELSE h

Document_setMetadata(h, this, key, value) ==
  [h EXCEPT !.objects[h.documents[this].metadata] = Map_set(@, key, value),
            !.documents[this].updatedAt = DATE]

DocumentRegistry_new == <<>>
DocumentRegistry_registerDocument(documents, key, document) ==
  Map_set(documents, key, document)
DocumentRegistry_unregisterDocument(documents, key) ==
  [k \in DOMAIN documents \ {key} |-> documents[k]]

\* DocumentRegistry.createDocument(key, customizations): customizations is a
\* record of the properties given, tags an array and metadata an object
DocumentRegistry_createDocument(documents, h, key, customizations) ==
  IF key \notin DOMAIN documents
  THEN [threw |-> TRUE, heap |-> h, value |-> 0]
  ELSE LET c == Document_clone(h, documents[key])
           clonedDocument == c.value
           props == DOMAIN customizations
           h1 == IF "tags" \in props
                 THEN LET a == Array_new(c.heap, customizations.tags)
                      IN [a EXCEPT !.documents[clonedDocument].tags = Len(a.arrays)]
                 ELSE c.heap
           h2 == IF "metadata" \in props
                 THEN LET o == Object_new(h1, customizations.metadata)
                      IN [o EXCEPT !.documents[clonedDocument].metadata =
                                     Len(o.objects)]
                 ELSE h1
           h3 == IF "title" \in props
                 THEN [h2 EXCEPT !.documents[clonedDocument].title =
                                   customizations.title]
                 ELSE h2
           h4 == IF "content" \in props
                 THEN [h3 EXCEPT !.documents[clonedDocument].content =
                                   customizations.content]
                 ELSE h3
           h5 == IF "author" \in props
                 THEN [h4 EXCEPT !.documents[clonedDocument].author =
                                   customizations.author]
                 ELSE h4
       IN [threw |-> FALSE, heap |-> h5, value |-> clonedDocument]

\* The documents the client makes with new, the keys it registers them
\* under, and the arguments it passes
Templates ==
  {[title |-> "Article Template", content |-> "Your content here...",
    author |-> "Editorial Team", tags |-> <<"article", "template">>,
    metadata |-> [status |-> Str("draft"), wordCount |-> Num(0)]]}
RegistryKeys == {"article"}
Customizations ==
  {<<>>,
   [title |-> "Understanding JavaScript Prototypes"],
   [tags |-> <<"javascript">>],
   [metadata |-> [status |-> Str("published")]],
   [content |-> "Today, a new JavaScript framework was announced...",
    author |-> "Jane Smith"]}
Contents == {"Step 1: Create a new React project"}
Tags == {"javascript", "template"}
MetadataKeys == {"reviewedAt"}
MetadataValues == {Str("pending"), NaN, UNDEFINED, DATE}

\* ------------------------------------------------------------------------
\* EventEmitter: events, a Map from the name of an event to the array of
\* its callbacks
\* ------------------------------------------------------------------------
EventNames == {"button-click", "form-submit"}
Listeners == {"saveBtnListener", "cancelBtnListener"}
\* What removeAllListeners is called with: the name of an event, or nothing
RemoveArgs == {Str(eventName) : eventName \in EventNames} \cup {UNDEFINED}
TypeError == "TypeError"

EventEmitter_new == <<>>

\* on(eventName, callback): the listeners after the call; the function it
\* returns is known by the eventName and the callback it closes over
EventEmitter_on(listeners, eventName, callback) ==
  LET withEvent == IF ~Map_has(listeners, eventName)
                   THEN Map_set(listeners, eventName, <<>>)
                   ELSE listeners
  IN [withEvent EXCEPT ![eventName] = Append(@, callback)]

\* The function that on(eventName, callback) returns: listeners.get(eventName)
\* is undefined when the Map has no such key, and undefined.indexOf throws
EventEmitter_unsubscribe(listeners, eventName, callback) ==
  IF ~Map_has(listeners, eventName)
  THEN [threw |-> TRUE, events |-> listeners]
  ELSE LET index == IndexOf(listeners[eventName], callback)
       IN [threw |-> FALSE,
           events |-> IF index # -1
                      THEN [listeners EXCEPT ![eventName] = Splice1(@, index)]
                      ELSE listeners]

\* emit(eventName): the callbacks called, in order
EventEmitter_emit(listeners, eventName) ==
  IF ~Map_has(listeners, eventName) THEN <<>> ELSE listeners[eventName]

\* removeAllListeners(eventName): a name that is truthy deletes its key,
\* anything else clears the Map
EventEmitter_removeAllListeners(listeners, eventName) ==
  IF eventName.type = "string" /\ eventName.str # ""
  THEN [k \in DOMAIN listeners \ {eventName.str} |-> listeners[k]]
  ELSE Map_clear

EventEmitter_listenerCount(listeners, eventName) ==
  IF ~Map_has(listeners, eventName) THEN 0 ELSE Len(listeners[eventName])

\* ------------------------------------------------------------------------
\* ModernPaymentAPI and ModernPaymentAdapter
\* ------------------------------------------------------------------------
\* 'pi_' + Math.random().toString(36).substring(2, 15)
IntentIds == {"pi_k3x9", "pi_07fq"}
Amounts == {50, 200}
\* paymentDetails: with or without an expiryDate
PaymentDetails == {[cardNumber |-> "4111111111111111", expiryDate |-> Str("12/25")],
                   [cardNumber |-> "4111111111111111", expiryDate |-> UNDEFINED]}

ModernPaymentAPI_createPaymentIntent(id, options) ==
  [id |-> id, amount |-> options.amount, status |-> "requires_confirmation"]
ModernPaymentAPI_confirmPaymentIntent(intentId) ==
  [id |-> intentId, status |-> "succeeded"]
ModernPaymentAPI_createRefund(intentId, refundOptions) ==
  [payment_intent |-> intentId, amount |-> refundOptions.amount,
   status |-> "succeeded"]
ModernPaymentAPI_retrievePaymentIntent(intentId) ==
  [id |-> intentId, status |-> "succeeded"]

\* One call of the wrapped API, as the adapter made it
ApiCall(method, intentId, amount) ==
  [method |-> method, intentId |-> intentId, amount |-> amount]

\* prefix + Date.now().toString() + '-' + Math.floor(Math.random() * 1000)
TransactionId(prefix, now, random) ==
  [prefix |-> prefix, now |-> now, random |-> random]
\* The ids a client can hold: of the modern adapter, of the standard processor
TransactionIds ==
  {TransactionId(prefix, now, random) :
     prefix \in {"MODERN", "STD"}, now \in 0 .. MaxClock, random \in 0 .. MaxRandom}

ModernPaymentAdapter_new == [intentMap |-> <<>>]

\* processPayment(amount, currency, paymentDetails); id is the id of the
\* intent the API creates, now and random what Date.now() and Math.random()
\* give.  Splitting an expiryDate that is missing throws after the intent
\* has been created.
ModernPaymentAdapter_processPayment(adapter, amount, paymentDetails, id, now, random) ==
  LET intent == ModernPaymentAPI_createPaymentIntent(id, [amount |-> amount * 100])
      intentCalls == <<ApiCall("createPaymentIntent", intent.id, intent.amount)>>
  IN IF paymentDetails.expiryDate = UNDEFINED
     THEN [threw |-> "TypeError", adapter |-> adapter, calls |-> intentCalls,
           value |-> UNDEFINED]
     ELSE LET confirmation == ModernPaymentAPI_confirmPaymentIntent(intent.id)
              transactionId == TransactionId("MODERN", now, random)
          IN [threw |-> "none",
              adapter |-> [adapter EXCEPT
                             !.intentMap = Map_set(@, transactionId, intent.id)],
              calls |-> intentCalls
                          \o <<ApiCall("confirmPaymentIntent", intent.id, 0)>>,
              value |-> [success |-> confirmation.status = "succeeded",
                         transactionId |-> transactionId,
                         amount |-> amount]]

\* refundPayment(transactionId, amount)
ModernPaymentAdapter_refundPayment(adapter, transactionId, amount) ==
  IF ~Map_has(adapter.intentMap, transactionId)
  THEN [threw |-> "Error", adapter |-> adapter, calls |-> <<>>,
        value |-> UNDEFINED]
  ELSE LET intentId == adapter.intentMap[transactionId]
           refundResult ==
             ModernPaymentAPI_createRefund(intentId, [amount |-> amount * 100])
       IN [threw |-> "none", adapter |-> adapter,
           calls |-> <<ApiCall("createRefund", intentId, refundResult.amount)>>,
           value |-> [success |-> refundResult.status = "succeeded",
                      originalTransaction |-> transactionId,
                      amount |-> amount]]

\* verifyPayment(transactionId)
ModernPaymentAdapter_verifyPayment(adapter, transactionId) ==
  IF ~Map_has(adapter.intentMap, transactionId)
  THEN [threw |-> "Error", adapter |-> adapter, calls |-> <<>>,
        value |-> UNDEFINED]
  ELSE LET intentId == adapter.intentMap[transactionId]
           intentResult == ModernPaymentAPI_retrievePaymentIntent(intentId)
       IN [threw |-> "none", adapter |-> adapter,
           calls |-> <<ApiCall("retrievePaymentIntent", intentId, 0)>>,
           value |-> [transactionId |-> transactionId,
                      status |-> IF intentResult.status = "succeeded"
                                 THEN "completed" ELSE "unknown"]]

\* ------------------------------------------------------------------------
\* Devices and remote controls.  The numbers of this demonstration are held
\* in tenths: Num(300) is 30, Num(875) is 87.5, Num(5) is 0.5.
\* ------------------------------------------------------------------------
Plus(a, b) == IF a = NaN \/ b = NaN THEN NaN ELSE Num(a.num + b.num)
Minus(a, b) == IF a = NaN \/ b = NaN THEN NaN ELSE Num(a.num - b.num)
\* Math.min / Math.max: NaN when an argument is NaN
Math_min(a, b) == IF a = NaN \/ b = NaN THEN NaN ELSE Num(Min(a.num, b.num))
Math_max(a, b) == IF a = NaN \/ b = NaN THEN NaN ELSE Num(Max(a.num, b.num))
\* a > b, a >= b, a <= b, a < b: false when an operand is NaN
Greater(a, b) == a # NaN /\ b # NaN /\ a.num > b.num
AtLeast(a, b) == a # NaN /\ b # NaN /\ a.num >= b.num
AtMost(a, b) == a # NaN /\ b # NaN /\ a.num <= b.num
Less(a, b) == a # NaN /\ b # NaN /\ a.num < b.num

TV_new ==
  [deviceType |-> "TV", isOn |-> FALSE, volume |-> Num(300),
   channel |-> Num(10), maxChannels |-> Num(1000)]
Radio_new ==
  [deviceType |-> "Radio", isOn |-> FALSE, volume |-> Num(200),
   channel |-> Num(875), isFM |-> TRUE]
SmartSpeaker_new ==
  [deviceType |-> "Smart Speaker", isOn |-> FALSE, volume |-> Num(400),
   channel |-> NULL, currentApp |-> Str("None"),
   availableApps |-> <<Str("Music"), Str("Podcast"), Str("News"),
                       Str("Weather"), Str("Home Control")>>]

Device_turnOn(device) == [device EXCEPT !.isOn = TRUE]
Device_turnOff(device) == [device EXCEPT !.isOn = FALSE]

\* setVolume(percent), the same in the three classes
Device_setVolume(device, percent) ==
  IF ~device.isOn THEN device
  ELSE [device EXCEPT !.volume = Math_max(Num(0), Math_min(Num(1000), percent))]

TV_setChannel(device, channel) ==
  IF ~device.isOn THEN device
  ELSE IF Greater(channel, Num(0)) /\ AtMost(channel, device.maxChannels)
       THEN [device EXCEPT !.channel = channel]
       ELSE device

Radio_setChannel(device, channel) ==
  IF ~device.isOn THEN device
  ELSE IF device.isFM
       THEN IF AtLeast(channel, Num(875)) /\ AtMost(channel, Num(1080))
            THEN [device EXCEPT !.channel = channel]
            ELSE device
       ELSE IF AtLeast(channel, Num(5400)) /\ AtMost(channel, Num(16000))
            THEN [device EXCEPT !.channel = channel]
            ELSE device

Radio_toggleBand(device) ==
  IF ~device.isOn THEN device
  ELSE IF ~device.isFM
       THEN [device EXCEPT !.isFM = TRUE, !.channel = Num(875)]
       ELSE [device EXCEPT !.isFM = FALSE, !.channel = Num(10000)]

\* setChannel(appIndex) of the speaker: availableApps[appIndex] is undefined
\* when appIndex is not a whole number
SmartSpeaker_setChannel(device, appIndex) ==
  IF ~device.isOn THEN device
  ELSE IF AtLeast(appIndex, Num(0))
          /\ Less(appIndex, Num(10 * Len(device.availableApps)))
       THEN [device EXCEPT !.currentApp =
               IF appIndex.num % 10 = 0
               THEN device.availableApps[(appIndex.num \div 10) + 1]
               ELSE UNDEFINED]
       ELSE device

\* voiceCommand('play music')
SmartSpeaker_voiceCommand(device) ==
  IF ~device.isOn THEN device
  ELSE [device EXCEPT !.currentApp = Str("Music")]

\* device.setChannel(channel), by the class of the device
Device_setChannel(device, channel) ==
  CASE device.deviceType = "TV" -> TV_setChannel(device, channel)
    [] device.deviceType = "Radio" -> Radio_setChannel(device, channel)
    [] OTHER -> SmartSpeaker_setChannel(device, channel)

\* device.getStatus(), by the class of the device
Device_getStatus(device) ==
  CASE device.deviceType = "TV" ->
         [deviceType |-> "TV",
          powerStatus |-> IF device.isOn THEN "ON" ELSE "OFF",
          volume |-> device.volume, channel |-> device.channel]
    [] device.deviceType = "Radio" ->
         [deviceType |-> "Radio",
          powerStatus |-> IF device.isOn THEN "ON" ELSE "OFF",
          volume |-> device.volume, frequency |-> device.channel,
          band |-> IF device.isFM THEN "FM" ELSE "AM"]
    [] OTHER ->
         [deviceType |-> "Smart Speaker",
          powerStatus |-> IF device.isOn THEN "ON" ELSE "OFF",
          volume |-> device.volume, currentApp |-> device.currentApp,
          availableApps |-> device.availableApps]

\* The operations of a remote control give the device they leave behind
RemoteControl_power(device) ==
  IF Device_getStatus(device).powerStatus = "ON"
  THEN Device_turnOff(device) ELSE Device_turnOn(device)

\* amount = 10 when no amount is given
DefaultAmount(amount) == IF amount = UNDEFINED THEN Num(100) ELSE amount

RemoteControl_volumeUp(device, amount) ==
  LET currentVolume == Device_getStatus(device).volume
  IN Device_setVolume(device, Plus(currentVolume, DefaultAmount(amount)))

RemoteControl_volumeDown(device, amount) ==
  LET currentVolume == Device_getStatus(device).volume
  IN Device_setVolume(device, Minus(currentVolume, DefaultAmount(amount)))

RemoteControl_setChannel(device, channel) == Device_setChannel(device, channel)

AdvancedRemoteControl_mute(device) == Device_setVolume(device, Num(0))

AdvancedRemoteControl_channelUp(device) ==
  LET status == Device_getStatus(device)
  IN CASE status.deviceType = "TV" ->
            Device_setChannel(device, Plus(status.channel, Num(10)))
       [] status.deviceType = "Radio" ->
            IF status.band = "FM"
            THEN Device_setChannel(device, Plus(status.frequency, Num(1)))
            ELSE Device_setChannel(device, Plus(status.frequency, Num(100)))
       [] OTHER ->
            LET appIndex == IndexOf(status.availableApps, status.currentApp)
                nextAppIndex == (appIndex + 1) % Len(status.availableApps)
            IN Device_setChannel(device, Num(10 * nextAppIndex))

AdvancedRemoteControl_channelDown(device) ==
  LET status == Device_getStatus(device)
  IN CASE status.deviceType = "TV" ->
            Device_setChannel(device, Minus(status.channel, Num(10)))
       [] status.deviceType = "Radio" ->
            IF status.band = "FM"
            THEN Device_setChannel(device, Minus(status.frequency, Num(1)))
            ELSE Device_setChannel(device, Minus(status.frequency, Num(100)))
       [] OTHER ->
            LET appIndex == IndexOf(status.availableApps, status.currentApp)
                prevAppIndex == (appIndex - 1 + Len(status.availableApps))
                                  % Len(status.availableApps)
            IN Device_setChannel(device, Num(10 * prevAppIndex))

AdvancedRemoteControl_performSpecialAction(device) ==
  CASE device.deviceType = "Radio" -> Radio_toggleBand(device)
    [] device.deviceType = "Smart Speaker" -> SmartSpeaker_voiceCommand(device)
    [] OTHER -> device

\* switchDevice(): the index of the next device
UniversalRemoteControl_switchDevice(index, all) == (index + 1) % Len(all)

\* masterPower(on): every device that is not in that state is switched
UniversalRemoteControl_masterPower(all, on) ==
  [i \in 1 .. Len(all) |->
     IF (Device_getStatus(all[i]).powerStatus = "ON") # on
     THEN IF on THEN Device_turnOn(all[i]) ELSE Device_turnOff(all[i])
     ELSE all[i]]

\* What the client passes: an amount (or none), a channel
VolumeAmounts == {UNDEFINED, Num(150), Num(2000), NaN}
ChannelInputs == {Num(0), Num(5), Num(20), Num(1000), Num(1010), Num(6000), NaN}

\* ------------------------------------------------------------------------
\* Variables by demonstration
\* ------------------------------------------------------------------------
varsEditor == <<editor, history, ret, m, snapE, rt, dropped>>
varsGame == <<hero, heap, mementos, gm, snapG, created, saveManager>>
varsObserver == <<weather, market, iter, log, atStart, attachOrder>>
varsCoffee == <<coffee>>
varsComposite == <<fs>>
varsOutcome == <<raised>>
varsSingleton == <<instance, singletons, returned>>
varsBuilder == <<builder, cars, built, since>>
varsEmitter == <<events, unsubscribers, emitted>>
varsBridge == <<devices, currentDeviceIndex, presses>>
varsAdapter == <<adapters, clock, payments, apiCalls, response>>
varsPrototype == <<memory, registry, origin>>
varsProxy == <<proxy, sources, inflight, store, requests, event, sinceSave>>

InitEditor ==
  /\ editor = TextEditor_new
  /\ history = EditorHistory_new
  /\ ret = NULL
  /\ m = NULL
  /\ snapE = NULL
  /\ rt = RtNew
  /\ dropped = 0

InitGame ==
  /\ hero = GameCharacter_new("Hero")
  /\ heap = (1 :> <<>>) @@ (2 :> <<>>)
  /\ mementos = [i \in {} |-> NULL]
  /\ created = [i \in {} |-> NULL]
  /\ gm = NULL
  /\ snapG = NULL
  /\ saveManager = SaveManager_new

InitObserver ==
  /\ weather = WeatherStation_new
  /\ market = StockMarket_new
  /\ iter = IterNew
  /\ log = <<>>
  /\ atStart = <<>>
  /\ attachOrder = <<>>

InitCoffee == coffee = <<>>
InitComposite == fs = FileSystemFactory_create
InitOutcome == raised = "none"
InitSingleton == instance = UNDEFINED /\ singletons = <<>> /\ returned = <<>>
\* builder = new CarBuilder()
InitPrototype ==
  /\ memory = Heap_new
  /\ registry = DocumentRegistry_new
  /\ origin = [by |-> "none", prototype |-> 0, customizations |-> <<>>]

AdapterNames == {"modernAdapter", "secondAdapter"}
\* modernAdapter = new ModernPaymentAdapter(modernApi)
InitAdapter ==
  /\ adapters = [name \in AdapterNames |-> ModernPaymentAdapter_new]
  /\ clock = 0
  /\ payments = <<>>
  /\ apiCalls = <<>>
  /\ response = UNDEFINED

\* universalRemote = new UniversalRemoteControl(samsungTv);
\* universalRemote.addDevice(sonyRadio); universalRemote.addDevice(amazonSpeaker)
InitBridge ==
  /\ devices = <<TV_new, Radio_new, SmartSpeaker_new>>
  /\ currentDeviceIndex = 0
  /\ presses = 0

InitEmitter ==
  /\ events = EventEmitter_new
  /\ unsubscribers = {}
  /\ emitted = <<>>

InitBuilder ==
  /\ builder = CarBuilder_new.builder
  /\ cars = CarBuilder_new.cars
  /\ built = <<>>
  /\ since = <<>>
IDLE == [op |-> "idle"]
NoEvent == [op |-> "none", arg |-> NULL, outcome |-> "none"]
\* new DatabaseProxy('db://example.com/mydb', accessLevel)
InitProxyWith(accessLevel) ==
  /\ proxy = DatabaseProxy_new(accessLevel)
  /\ sources = <<>>
  /\ inflight = [slot \in 1 .. MaxInFlight |-> IDLE]
  /\ store = [version |-> 0, forwarded |-> 0]
  /\ requests = 0
  /\ event = NoEvent
  /\ sinceSave = [cached |-> {}, invalidated |-> {}]
\* The proxy demonstration starts with a proxy of any access level
InitProxy ==
  IF example = "proxy"
  THEN \E accessLevel \in AccessLevels : InitProxyWith(accessLevel)
  ELSE InitProxyWith("read")

\* ------------------------------------------------------------------------
\* Text editor demonstration: the client's calls on editor and history
\* ------------------------------------------------------------------------
othersOfPush == <<example, varsGame, varsObserver, varsCoffee, varsComposite,
    varsOutcome,
    varsSingleton,
    varsProxy,
    varsBuilder,
    varsPrototype,
    varsEmitter,
    varsAdapter,
    varsBridge>>
othersOfEditor == <<dropped, othersOfPush>>

Write(text) ==
  /\ example = "editor"
  /\ Len(editor.content) + Len(text) <= MaxContent
  /\ editor' = TextEditor_write(editor, text)
  /\ lastOp' = "write"
  /\ ret' = NULL
  /\ UNCHANGED <<history, m, snapE, rt, othersOfEditor>>

Delete(count) ==
  /\ example = "editor"
  /\ editor' = TextEditor_delete(editor, count)
  /\ lastOp' = "delete"
  /\ ret' = NULL
  /\ UNCHANGED <<history, m, snapE, rt, othersOfEditor>>

Select(startPosition, endPosition) ==
  /\ example = "editor"
  /\ editor' = TextEditor_select(editor, startPosition, endPosition)
  /\ lastOp' = "select"
  /\ ret' = NULL
  /\ UNCHANGED <<history, m, snapE, rt, othersOfEditor>>

MoveCursor(position) ==
  /\ example = "editor"
  /\ editor' = TextEditor_moveCursor(editor, position)
  /\ lastOp' = "moveCursor"
  /\ ret' = NULL
  /\ UNCHANGED <<history, m, snapE, rt, othersOfEditor>>

ChangeFont(font) ==
  /\ example = "editor"
  /\ editor' = TextEditor_changeFont(editor, font.name, font.size)
  /\ lastOp' = "changeFont"
  /\ ret' = NULL
  /\ UNCHANGED <<history, m, snapE, rt, othersOfEditor>>

\* m = editor.save()
Save ==
  /\ example = "editor"
  /\ m' = TextEditor_save(editor)
  /\ snapE' = editor
  /\ lastOp' = "save"
  /\ ret' = NULL
  /\ UNCHANGED <<editor, history, rt, othersOfEditor>>

\* editor.restore(m)
Restore ==
  /\ example = "editor"
  /\ editor' = TextEditor_restore(editor, m)
  /\ lastOp' = "restore"
  /\ ret' = NULL
  /\ UNCHANGED <<history, m, snapE, rt, othersOfEditor>>

\* history.push(editor.save())
SaveAndPush ==
  /\ example = "editor"
  /\ history.currentStateIndex + 2 <= MaxStates
  /\ LET memento == TextEditor_save(editor)
     IN /\ history' = EditorHistory_push(history, memento)
        /\ rt' = RtPush(rt, memento, editor)
  /\ dropped' = Len(history.states) - (history.currentStateIndex + 1)
  /\ lastOp' = "push"
  /\ ret' = NULL
  /\ UNCHANGED <<editor, m, snapE, othersOfPush>>

\* previousState = history.undo(); if (previousState) editor.restore(previousState)
Undo ==
  /\ example = "editor"
  /\ LET r == EditorHistory_undo(history)
     IN /\ history' = r.h
        /\ ret' = r.value
        /\ editor' = IF r.value # NULL THEN TextEditor_restore(editor, r.value) ELSE editor
  /\ rt' = RtUndo(rt)
  /\ lastOp' = "undo"
  /\ UNCHANGED <<m, snapE, othersOfEditor>>

\* nextState = history.redo(); if (nextState) editor.restore(nextState)
Redo ==
  /\ example = "editor"
  /\ LET r == EditorHistory_redo(history)
     IN /\ history' = r.h
        /\ ret' = r.value
        /\ editor' = IF r.value # NULL THEN TextEditor_restore(editor, r.value) ELSE editor
  /\ rt' = RtRedo(rt)
  /\ lastOp' = "redo"
  /\ UNCHANGED <<m, snapE, othersOfEditor>>

GoToState(index) ==
  /\ example = "editor"
  /\ LET r == EditorHistory_goToState(history, index)
     IN /\ history' = r.h
        /\ ret' = r.value
  /\ rt' = RtOff(rt)
  /\ lastOp' = "goToState"
  /\ UNCHANGED <<editor, m, snapE, othersOfEditor>>

Clear ==
  /\ example = "editor"
  /\ history' = EditorHistory_clear(history)
  /\ rt' = RtNew
  /\ lastOp' = "clear"
  /\ ret' = NULL
  /\ UNCHANGED <<editor, m, snapE, othersOfEditor>>

\* ------------------------------------------------------------------------
\* Game character demonstration: the client's calls on hero and saveManager
\* ------------------------------------------------------------------------
othersOfGame == <<example, varsEditor, varsObserver, varsCoffee, varsComposite,
    varsOutcome,
    varsSingleton,
    varsProxy,
    varsBuilder,
    varsPrototype,
    varsEmitter,
    varsAdapter,
    varsBridge>>

\* The objects after a call, with the references renumbered
Settle(c, mems, hp) ==
  \E k \in {Canon(c, mems, hp)} :
     /\ hero' = k.hero
     /\ mementos' = k.mementos
     /\ heap' = k.heap

MoveTo(x, y) ==
  /\ example = "character"
  /\ hero' = GameCharacter_moveTo(hero, x, y)
  /\ lastOp' = "moveTo"
  /\ UNCHANGED <<heap, mementos, gm, snapG, created, saveManager, othersOfGame>>

TakeDamage(amount) ==
  /\ example = "character"
  /\ hero' = GameCharacter_takeDamage(hero, amount)
  /\ lastOp' = "takeDamage"
  /\ UNCHANGED <<heap, mementos, gm, snapG, created, saveManager, othersOfGame>>

Heal(amount) ==
  /\ example = "character"
  /\ hero' = GameCharacter_heal(hero, amount)
  /\ lastOp' = "heal"
  /\ UNCHANGED <<heap, mementos, gm, snapG, created, saveManager, othersOfGame>>

GainExperience(exp) ==
  /\ example = "character"
  /\ hero' = GameCharacter_gainExperience(hero, exp)
  /\ lastOp' = "gainExperience"
  /\ UNCHANGED <<heap, mementos, gm, snapG, created, saveManager, othersOfGame>>

AddItem(item) ==
  /\ example = "character"
  /\ Len(heap[hero.inventory]) < MaxInventory
  /\ \E hp \in {GameCharacter_addItem(hero, heap, item)} : Settle(hero, mementos, hp)
  /\ lastOp' = "addItem"
  /\ UNCHANGED <<gm, snapG, created, saveManager, othersOfGame>>

RemoveItem(item) ==
  /\ example = "character"
  /\ \E hp \in {GameCharacter_removeItem(hero, heap, item)} : Settle(hero, mementos, hp)
  /\ lastOp' = "removeItem"
  /\ UNCHANGED <<gm, snapG, created, saveManager, othersOfGame>>

LearnSkill(skill) ==
  /\ example = "character"
  /\ \E hp \in {GameCharacter_learnSkill(hero, heap, skill)} : Settle(hero, mementos, hp)
  /\ lastOp' = "learnSkill"
  /\ UNCHANGED <<gm, snapG, created, saveManager, othersOfGame>>

\* What a memento holds: its fields, with the contents of its arrays
MementoFields(mem, hp) ==
  [mem EXCEPT !._inventory = hp[mem._inventory], !._skills = hp[mem._skills]]

\* gm = hero.save(); the memento gm held before is dropped
CharacterSave ==
  /\ example = "character"
  /\ \E kept \in {CollectMementos(mementos, NULL, saveManager)},
        s \in {GameCharacter_save(hero, heap)} :
     LET id == NewId(kept)
     IN /\ Settle(hero, (id :> s.memento) @@ kept, s.heap)
        /\ created' = [i \in (DOMAIN kept) \cup {id} |->
                         IF i = id THEN MementoFields(s.memento, s.heap) ELSE created[i]]
        /\ gm' = Ref(id)
  /\ snapG' = CharacterState(hero, heap)
  /\ lastOp' = "save"
  /\ UNCHANGED <<saveManager, othersOfGame>>

\* hero.restore(gm)
CharacterRestore ==
  /\ example = "character"
  /\ \E r \in {GameCharacter_restore(hero, heap,
                                        IF gm = NULL THEN NULL ELSE mementos[gm.id])} :
        Settle(r.hero, mementos, r.heap)
  /\ lastOp' = "restore"
  /\ UNCHANGED <<gm, snapG, created, saveManager, othersOfGame>>

SaveCharacter(label) ==
  /\ example = "character"
  /\ hero.name \in DOMAIN saveManager.savedGames
       => Len(saveManager.savedGames[hero.name]) < MaxSaves
  /\ \E r \in {SaveManager_saveCharacter(saveManager, hero, mementos, heap, label)} :
        /\ saveManager' = r.saveManager
        /\ Settle(hero, r.mementos, r.heap)
        /\ created' = (r.id :> MementoFields(r.constructed, r.heap)) @@ created
  /\ lastOp' = "saveCharacter"
  /\ UNCHANGED <<gm, snapG, othersOfGame>>

LoadCharacter(index) ==
  /\ example = "character"
  /\ \E r \in {SaveManager_loadCharacter(saveManager, hero, mementos, heap, index)} :
        Settle(r.hero, mementos, r.heap)
  /\ lastOp' = "loadCharacter"
  /\ UNCHANGED <<gm, snapG, created, saveManager, othersOfGame>>

DeleteSave(characterName, index) ==
  /\ example = "character"
  /\ \E sm \in {SaveManager_deleteSave(saveManager, characterName, index)} :
     \E kept \in {CollectMementos(mementos, gm, sm)} :
        /\ saveManager' = sm
        /\ Settle(hero, kept, heap)
        /\ created' = [i \in DOMAIN kept |-> created[i]]
  /\ lastOp' = "deleteSave"
  /\ UNCHANGED <<gm, snapG, othersOfGame>>

\* ------------------------------------------------------------------------
\* Observer demonstration.  The client attaches and detaches between
\* notifications; while notify() iterates, the only code that runs is the
\* update() of the observer being notified.
\* ------------------------------------------------------------------------
othersOfObserver == <<example, varsEditor, varsGame, varsCoffee, varsComposite,
    varsOutcome,
    varsSingleton,
    varsProxy,
    varsBuilder,
    varsPrototype,
    varsEmitter,
    varsAdapter,
    varsBridge>>

\* Bookkeeping of attach and detach calls, from the calls alone
OrderHas(order, o) == \E i \in 1 .. Len(order) : order[i].observer = o
OrderPos(order, o) == CHOOSE i \in 1 .. Len(order) : order[i].observer = o
OrderAttach(order, o) ==
  IF OrderHas(order, o)
    THEN [order EXCEPT ![OrderPos(order, o)].again = TRUE]
    ELSE Append(order, [observer |-> o, again |-> FALSE])
OrderDetach(order, o) ==
  IF OrderHas(order, o) THEN Splice1(order, OrderPos(order, o) - 1) ELSE order
Update(o) == [call |-> "update", observer |-> o]
Detached(o) == [call |-> "detach", observer |-> o]

WeatherAttach(o) ==
  /\ example = "weather" /\ ~iter.active
  /\ weather' = [observers |-> WeatherStation_attach(weather.observers, o)]
  /\ attachOrder' = OrderAttach(attachOrder, o)
  /\ lastOp' = "attach"
  /\ UNCHANGED <<market, iter, log, atStart, othersOfObserver>>

WeatherDetach(o) ==
  /\ example = "weather" /\ ~iter.active
  /\ weather' = [observers |-> WeatherStation_detach(weather.observers, o)]
  /\ attachOrder' = OrderDetach(attachOrder, o)
  /\ lastOp' = "detach"
  /\ UNCHANGED <<market, iter, log, atStart, othersOfObserver>>

\* setMeasurements(...) -> notify(): the loop starts
WeatherNotify ==
  /\ example = "weather" /\ ~iter.active
  /\ iter' = [active |-> TRUE, index |-> 0, symbol |-> "none"]
  /\ log' = <<>>
  /\ atStart' = weather.observers
  /\ lastOp' = "notify"
  /\ UNCHANGED <<weather, market, attachOrder, othersOfObserver>>

\* One turn of the loop: observer.update(this), which may call detach()
WeatherUpdate(cb) ==
  /\ example = "weather" /\ iter.active
  /\ iter.index < Len(weather.observers)
  /\ LET observer == NextOfArray(weather.observers, iter.index)
         removedAt == IndexOf(weather.observers, cb.target) + 1
         detaches == cb.do = "detach" /\ removedAt > 0
     IN /\ weather' = [observers |-> IF cb.do = "detach"
                                        THEN WeatherStation_detach(weather.observers, cb.target)
                                        ELSE weather.observers]
        /\ iter' = [iter EXCEPT !.index = IF detaches
                                            THEN ArrayIterAfterSplice(iter.index + 1, removedAt)
                                            ELSE iter.index + 1]
        /\ log' = log \o <<Update(observer)>>
                       \o (IF detaches THEN <<Detached(cb.target)>> ELSE <<>>)
        /\ attachOrder' = IF detaches THEN OrderDetach(attachOrder, cb.target)
                                       ELSE attachOrder
  /\ lastOp' = "update"
  /\ UNCHANGED <<market, atStart, othersOfObserver>>

\* The loop ends when the iterator has run past the end of the array
WeatherNotified ==
  /\ example = "weather" /\ iter.active
  /\ iter.index >= Len(weather.observers)
  /\ iter' = IterNew
  /\ lastOp' = "notified"
  /\ UNCHANGED <<weather, market, log, atStart, attachOrder, othersOfObserver>>

MarketAttach(o, stocks) ==
  /\ example = "market" /\ ~iter.active
  /\ market' = [observers |-> StockMarket_attach(market.observers, o, stocks)]
  /\ attachOrder' = OrderAttach(attachOrder, o)
  /\ lastOp' = "attach"
  /\ UNCHANGED <<weather, iter, log, atStart, othersOfObserver>>

MarketDetach(o) ==
  /\ example = "market" /\ ~iter.active
  /\ market' = [observers |-> StockMarket_detach(market.observers, o)]
  /\ attachOrder' = OrderDetach(attachOrder, o)
  /\ lastOp' = "detach"
  /\ UNCHANGED <<weather, iter, log, atStart, othersOfObserver>>

\* setStockPrice(symbol, price) -> notify(symbol): the loop starts
MarketNotify(symbol) ==
  /\ example = "market" /\ ~iter.active
  /\ iter' = [active |-> TRUE, index |-> 0, symbol |-> symbol]
  /\ log' = <<>>
  /\ atStart' = MapKeys(market.observers)
  /\ lastOp' = "notify"
  /\ UNCHANGED <<weather, market, attachOrder, othersOfObserver>>

\* One turn of the loop: an entry whose stocks list is empty or includes
\* the symbol gets observer.update(this, symbol), which may call detach()
MarketUpdate(cb) ==
  /\ example = "market" /\ iter.active
  /\ iter.index < Len(market.observers)
  /\ LET entry == NextOfArray(market.observers, iter.index)
         called == Len(entry.value) = 0 \/ Includes(entry.value, iter.symbol)
         removedAt == IF MapHas(market.observers, cb.target)
                        THEN MapIndex(market.observers, cb.target) ELSE 0
         detaches == called /\ cb.do = "detach" /\ removedAt > 0
     IN /\ cb.do = "detach" => called
        /\ market' = [observers |-> IF detaches
                                       THEN StockMarket_detach(market.observers, cb.target)
                                       ELSE market.observers]
        /\ iter' = [iter EXCEPT !.index = IF detaches
                                            THEN MapIterAfterDelete(iter.index + 1, removedAt)
                                            ELSE iter.index + 1]
        /\ log' = log \o (IF called THEN <<Update(entry.key)>> ELSE <<>>)
                       \o (IF detaches THEN <<Detached(cb.target)>> ELSE <<>>)
        /\ attachOrder' = IF detaches THEN OrderDetach(attachOrder, cb.target)
                                       ELSE attachOrder
  /\ lastOp' = "update"
  /\ UNCHANGED <<weather, atStart, othersOfObserver>>

MarketNotified ==
  /\ example = "market" /\ iter.active
  /\ iter.index >= Len(market.observers)
  /\ iter' = IterNew
  /\ lastOp' = "notified"
  /\ UNCHANGED <<weather, market, log, atStart, attachOrder, othersOfObserver>>

\* ------------------------------------------------------------------------
\* Decorator demonstration: the client's orders
\* ------------------------------------------------------------------------
othersOfCoffee == <<example, varsEditor, varsGame, varsObserver, varsComposite,
    varsOutcome,
    varsSingleton,
    varsProxy,
    varsBuilder,
    varsPrototype,
    varsEmitter,
    varsAdapter,
    varsBridge>>

\* coffee = new SimpleCoffee()
NewCoffee ==
  /\ example = "coffee"
  /\ coffee' = <<>>
  /\ lastOp' = "new"
  /\ UNCHANGED othersOfCoffee

\* coffee = new <kind>Decorator(coffee)
Decorate(kind) ==
  /\ example = "coffee"
  /\ Len(coffee) < MaxChain
  /\ coffee' = Append(coffee, kind)
  /\ lastOp' = "decorate"
  /\ UNCHANGED othersOfCoffee

\* ------------------------------------------------------------------------
\* Composite demonstration: the client's calls on the directories
\* ------------------------------------------------------------------------
othersOfComposite == <<example, varsEditor, varsGame, varsObserver, varsCoffee,
    varsOutcome,
    varsSingleton,
    varsProxy,
    varsBuilder,
    varsPrototype,
    varsEmitter,
    varsAdapter,
    varsBridge>>

Directories == {c \in Components : ~Component_isLeaf(FileSystemFactory_create[c])}

\* The number of '/' in a path
Depth(path) == Cardinality({i \in 1 .. Len(path) : path[i] = "/"})

\* d.add(component)
Add(d, component) ==
  /\ example = "composite"
  /\ Len(fs[d].children) < MaxChildren
  /\ Depth(Component_getPath(fs[d])) <= MaxDepth
  /\ fs' = Directory_add(fs, d, component)
  /\ UNCHANGED <<lastOp, othersOfComposite>>

\* d.remove(component)
Remove(d, component) ==
  /\ example = "composite"
  /\ fs' = Directory_remove(fs, d, component)
  /\ UNCHANGED <<lastOp, othersOfComposite>>

\* ------------------------------------------------------------------------
\* Singleton demonstration: the client's calls
\* ------------------------------------------------------------------------
othersOfSingleton == <<example, varsEditor, varsGame, varsObserver, varsCoffee,
    varsComposite,
    varsProxy,
    varsBuilder,
    varsPrototype,
    varsEmitter,
    varsAdapter,
    varsBridge>>

\* singleton = Singleton.getInstance()
GetInstance ==
  /\ example = "singleton"
  /\ Len(returned) < MaxCalls
  /\ \E r \in {Singleton_getInstance(instance, singletons)} :
       /\ Len(r.objects) <= MaxObjects
       /\ instance' = r.instance
       /\ singletons' = r.objects
       /\ returned' = Append(returned, r.value)
  /\ raised' = "none"
  /\ lastOp' = "getInstance"
  /\ UNCHANGED othersOfSingleton

\* new Singleton()
NewSingleton ==
  /\ example = "singleton"
  /\ \E c \in {Singleton_constructor(instance, singletons)} :
       /\ Len(c.objects) <= MaxObjects
       /\ singletons' = c.objects
       /\ raised' = IF c.threw THEN "Error" ELSE "none"
  /\ lastOp' = "new"
  /\ UNCHANGED <<instance, returned, othersOfSingleton>>

\* singleton.data = value, on any object the client holds
SetData(k, value) ==
  /\ example = "singleton"
  /\ k \in 1 .. Len(singletons)
  /\ singletons' = [singletons EXCEPT ![k].data = value]
  /\ raised' = "none"
  /\ lastOp' = "setData"
  /\ UNCHANGED <<instance, returned, othersOfSingleton>>

\* ------------------------------------------------------------------------
\* Proxy demonstration: the client's calls and the timers
\* ------------------------------------------------------------------------
othersOfProxy == <<example, varsEditor, varsGame, varsObserver, varsCoffee,
    varsComposite, varsSingleton,
    varsBuilder,
    varsPrototype,
    varsEmitter,
    varsAdapter,
    varsBridge>>

FreeSlots == {slot \in 1 .. MaxInFlight : inflight[slot] = IDLE}
\* The call takes the first free slot
Enter(call) ==
  [inflight EXCEPT ![CHOOSE slot \in FreeSlots : \A t \in FreeSlots : slot <= t] = call]

\* proxy.getData(query), not awaited
GetData(query) ==
  /\ example = "proxy"
  /\ requests < MaxRequests
  /\ \E r \in {DatabaseProxy_getData(proxy, sources, query)} :
       /\ r.outcome = "miss" => FreeSlots # {}
       /\ proxy' = r.proxy
       /\ sources' = r.sources
       /\ inflight' =
            IF r.outcome = "miss"
            THEN Enter([op |-> "getData", arg |-> query, database |-> r.database,
                        pc |-> DatabaseSource_call(r.sources[r.database.id],
                                                   "querying")])
            ELSE inflight
       /\ store' = IF r.outcome = "miss"
                   THEN [store EXCEPT !.forwarded = @ + 1] ELSE store
       /\ event' = [op |-> "getData", arg |-> query, outcome |-> r.outcome]
       /\ raised' = IF r.outcome = "denied" THEN "Access denied" ELSE "none"
  /\ requests' = requests + 1
  /\ lastOp' = "getData"
  /\ UNCHANGED <<sinceSave, othersOfProxy>>

\* proxy.saveData(data), not awaited
SaveData(data) ==
  /\ example = "proxy"
  /\ requests < MaxRequests
  /\ \E r \in {DatabaseProxy_saveData(proxy, sources, data)} :
       /\ r.outcome = "forwarded" => FreeSlots # {}
       /\ proxy' = r.proxy
       /\ sources' = r.sources
       /\ inflight' =
            IF r.outcome = "forwarded"
            THEN Enter([op |-> "saveData", arg |-> data, database |-> r.database,
                        pc |-> DatabaseSource_call(r.sources[r.database.id],
                                                   "saving")])
            ELSE inflight
       /\ store' = IF r.outcome = "forwarded"
                   THEN [store EXCEPT !.forwarded = @ + 1] ELSE store
       /\ event' = [op |-> "saveData", arg |-> data, outcome |-> r.outcome]
       /\ raised' = CASE r.outcome = "denied" -> "Access denied"
                       [] r.outcome = "invalid" -> "Invalid data format"
                       [] OTHER -> "none"
  /\ requests' = requests + 1
  /\ lastOp' = "saveData"
  /\ UNCHANGED <<sinceSave, othersOfProxy>>

\* The timer of connect() fires: the call goes on to its own delay
Connected(slot) ==
  /\ example = "proxy"
  /\ inflight[slot] # IDLE
  /\ inflight[slot].pc = "connecting"
  /\ sources' = [sources EXCEPT ![inflight[slot].database.id] =
                   DatabaseSource_connect(@)]
  /\ inflight' = [inflight EXCEPT ![slot].pc =
                    IF inflight[slot].op = "getData" THEN "querying" ELSE "saving"]
  /\ event' = [op |-> "connect", arg |-> NULL, outcome |-> "done"]
  /\ raised' = "none"
  /\ lastOp' = "connected"
  /\ UNCHANGED <<proxy, store, requests, sinceSave, othersOfProxy>>

\* The timer of DatabaseSource.getData fires: the result is built, the
\* proxy caches it and returns it
QueryDone(slot) ==
  /\ example = "proxy"
  /\ inflight[slot] # IDLE
  /\ inflight[slot].pc = "querying"
  /\ proxy' = DatabaseProxy_getData_resume(proxy, inflight[slot].arg,
                 [query |-> inflight[slot].arg, version |-> store.version])
  /\ inflight' = [inflight EXCEPT ![slot] = IDLE]
  /\ sinceSave' = [sinceSave EXCEPT !.cached = @ \cup {inflight[slot].arg}]
  /\ event' = [op |-> "getData", arg |-> inflight[slot].arg, outcome |-> "done"]
  /\ raised' = "none"
  /\ lastOp' = "getData:done"
  /\ UNCHANGED <<sources, store, requests, othersOfProxy>>

\* The timer of DatabaseSource.saveData fires: the write is done, the proxy
\* clears its cache and returns
SaveDone(slot) ==
  /\ example = "proxy"
  /\ inflight[slot] # IDLE
  /\ inflight[slot].pc = "saving"
  /\ store' = [store EXCEPT !.version = @ + 1]
  /\ proxy' = DatabaseProxy_saveData_resume(proxy)
  /\ inflight' = [inflight EXCEPT ![slot] = IDLE]
  /\ sinceSave' = [cached |-> {}, invalidated |-> DOMAIN proxy.cache]
  /\ event' = [op |-> "saveData", arg |-> inflight[slot].arg, outcome |-> "done"]
  /\ raised' = "none"
  /\ lastOp' = "saveData:done"
  /\ UNCHANGED <<sources, requests, othersOfProxy>>

\* proxy.close(), not awaited: disconnect() when there is a connected database
Close ==
  /\ example = "proxy"
  /\ requests < MaxRequests
  /\ IF proxy.realDatabase # NULL /\ sources[proxy.realDatabase.id].isConnected
     THEN /\ FreeSlots # {}
          /\ inflight' = Enter([op |-> "close", arg |-> NULL,
                                 database |-> proxy.realDatabase,
                                 pc |-> "disconnecting"])
     ELSE inflight' = inflight
  /\ requests' = requests + 1
  /\ event' = [op |-> "close", arg |-> NULL, outcome |-> "none"]
  /\ raised' = "none"
  /\ lastOp' = "close"
  /\ UNCHANGED <<proxy, sources, store, sinceSave, othersOfProxy>>

\* The timer of disconnect() fires
Disconnected(slot) ==
  /\ example = "proxy"
  /\ inflight[slot] # IDLE
  /\ inflight[slot].pc = "disconnecting"
  /\ sources' = [sources EXCEPT ![inflight[slot].database.id] =
                   DatabaseSource_disconnect(@)]
  /\ inflight' = [inflight EXCEPT ![slot] = IDLE]
  /\ event' = [op |-> "close", arg |-> NULL, outcome |-> "done"]
  /\ raised' = "none"
  /\ lastOp' = "disconnected"
  /\ UNCHANGED <<proxy, store, requests, sinceSave, othersOfProxy>>

\* proxy.clearCache()
ClearCache ==
  /\ example = "proxy"
  /\ proxy' = DatabaseProxy_clearCache(proxy)
  /\ event' = [op |-> "clearCache", arg |-> NULL, outcome |-> "none"]
  /\ raised' = "none"
  /\ lastOp' = "clearCache"
  /\ UNCHANGED <<sources, inflight, store, requests, sinceSave, othersOfProxy>>

\* ------------------------------------------------------------------------
\* Builder demonstration: the client's calls on the builder and the director
\* ------------------------------------------------------------------------
othersOfBuilder == <<example, varsEditor, varsGame, varsObserver, varsCoffee,
    varsComposite, varsOutcome, varsSingleton, varsProxy,
    varsPrototype,
    varsEmitter,
    varsAdapter,
    varsBridge>>

\* The car a builder call returned, as the client receives it
Returned_car(r, by) ==
  [ref |-> r.value, by |-> by, car |-> r.cars[r.value.id], calls |-> since]

\* builder.setMake(..), builder.addFeature(..), ...
BuilderCall(call) ==
  /\ example = "builder"
  /\ Len(since) < MaxSets
  /\ cars' = CarBuilder_call(builder, cars, call)
  /\ since' = Append(since, call)
  /\ lastOp' = call.op
  /\ UNCHANGED <<builder, built, othersOfBuilder>>

\* car = builder.build()
Build ==
  /\ example = "builder"
  /\ \E r \in {CarBuilder_build(builder, cars)} :
       /\ Len(r.cars) <= MaxCars
       /\ Len(built) < MaxCars - 1
       /\ builder' = r.builder
       /\ cars' = r.cars
       /\ built' = Append(built, Returned_car(r, "client"))
  /\ since' = <<>>
  /\ lastOp' = "build"
  /\ UNCHANGED othersOfBuilder

\* car = director.constructEconomyCar() / LuxuryCar() / SportsCar(), the
\* director made with this builder
Construct(kind) ==
  /\ example = "builder"
  /\ \E r \in {CASE kind = "economy" -> CarDirector_constructEconomyCar(builder, cars)
                  [] kind = "luxury" -> CarDirector_constructLuxuryCar(builder, cars)
                  [] kind = "sports" -> CarDirector_constructSportsCar(builder, cars)} :
       /\ Len(r.cars) <= MaxCars
       /\ Len(built) < MaxCars - 1
       /\ builder' = r.builder
       /\ cars' = r.cars
       /\ built' = Append(built, Returned_car(r, kind))
  /\ since' = <<>>
  /\ lastOp' = "construct"
  /\ UNCHANGED othersOfBuilder

\* ------------------------------------------------------------------------
\* Prototype demonstration: templates, the registry, clones and their edits
\* ------------------------------------------------------------------------
othersOfPrototype == <<example, varsEditor, varsGame, varsObserver, varsCoffee,
    varsComposite, varsSingleton, varsProxy, varsBuilder,
    varsEmitter,
    varsAdapter,
    varsBridge>>

\* What a document holds: its fields, the items of its tags array and the
\* properties of its metadata object
View(h, d) ==
  [title |-> h.documents[d].title,
   content |-> h.documents[d].content,
   author |-> h.documents[d].author,
   tags |-> h.arrays[h.documents[d].tags],
   metadata |-> h.objects[h.documents[d].metadata]]

\* The prototype's fields, each replaced by the customization given for it
Overridden(view, customizations) ==
  [title |-> IF "title" \in DOMAIN customizations
             THEN customizations.title ELSE view.title,
   content |-> IF "content" \in DOMAIN customizations
               THEN customizations.content ELSE view.content,
   author |-> IF "author" \in DOMAIN customizations
              THEN customizations.author ELSE view.author,
   tags |-> IF "tags" \in DOMAIN customizations
            THEN customizations.tags ELSE view.tags,
   metadata |-> IF "metadata" \in DOMAIN customizations
                THEN customizations.metadata ELSE view.metadata]

Documents == 1 .. Len(memory.documents)

\* new Document(title, content, author, [..], {..})
NewDocument(template) ==
  /\ example = "prototype"
  /\ Len(memory.documents) < MaxDocuments
  /\ \E h \in {Object_new(Array_new(memory, template.tags), template.metadata)} :
       memory' = Document_new(h, template.title, template.content,
                            template.author, Len(h.arrays), Len(h.objects))
  /\ origin' = [by |-> "new", prototype |-> 0, customizations |-> <<>>]
  /\ raised' = "none"
  /\ UNCHANGED <<registry, lastOp, othersOfPrototype>>

\* registry.registerDocument(key, document)
RegisterDocument(key, document) ==
  /\ example = "prototype"
  /\ registry' = DocumentRegistry_registerDocument(registry, key, document)
  /\ raised' = "none"
  /\ UNCHANGED <<memory, origin, lastOp, othersOfPrototype>>

\* registry.unregisterDocument(key)
UnregisterDocument(key) ==
  /\ example = "prototype"
  /\ registry' = DocumentRegistry_unregisterDocument(registry, key)
  /\ raised' = "none"
  /\ UNCHANGED <<memory, origin, lastOp, othersOfPrototype>>

\* registry.createDocument(key, customizations)
CreateDocument(key, customizations) ==
  /\ example = "prototype"
  /\ Len(memory.documents) < MaxDocuments
  /\ \E r \in {DocumentRegistry_createDocument(registry, memory, key,
                                                 customizations)} :
       /\ memory' = r.heap
       /\ raised' = IF r.threw THEN "Error" ELSE "none"
       /\ origin' = IF r.threw THEN origin
                    ELSE [by |-> "createDocument", prototype |-> registry[key],
                          customizations |-> customizations]
  /\ UNCHANGED <<registry, lastOp, othersOfPrototype>>

\* document.clone()
Clone(document) ==
  /\ example = "prototype"
  /\ Len(memory.documents) < MaxDocuments
  /\ memory' = Document_clone(memory, document).heap
  /\ origin' = [by |-> "clone", prototype |-> document, customizations |-> <<>>]
  /\ raised' = "none"
  /\ UNCHANGED <<registry, lastOp, othersOfPrototype>>

\* document.edit(newContent)
Edit(document, newContent) ==
  /\ example = "prototype"
  /\ memory' = Document_edit(memory, document, newContent)
  /\ raised' = "none"
  /\ UNCHANGED <<registry, origin, lastOp, othersOfPrototype>>

\* document.addTag(tag)
AddTag(document, tag) ==
  /\ example = "prototype"
  /\ Len(memory.arrays[memory.documents[document].tags]) < MaxTags
  /\ memory' = Document_addTag(memory, document, tag)
  /\ raised' = "none"
  /\ UNCHANGED <<registry, origin, lastOp, othersOfPrototype>>

\* document.setMetadata(key, value)
SetMetadata(document, key, value) ==
  /\ example = "prototype"
  /\ memory' = Document_setMetadata(memory, document, key, value)
  /\ raised' = "none"
  /\ UNCHANGED <<registry, origin, lastOp, othersOfPrototype>>

\* ------------------------------------------------------------------------
\* Event emitter demonstration: the client's calls
\* ------------------------------------------------------------------------
othersOfEmitter == <<example, varsEditor, varsGame, varsObserver, varsCoffee,
    varsComposite, varsSingleton, varsProxy, varsBuilder, varsPrototype,
    varsAdapter,
    varsBridge>>

\* unsubscribe = emitter.on(eventName, callback)
On(eventName, callback) ==
  /\ example = "emitter"
  /\ EventEmitter_listenerCount(events, eventName) < MaxListeners
  /\ events' = EventEmitter_on(events, eventName, callback)
  /\ unsubscribers' = unsubscribers
                        \cup {[eventName |-> eventName, callback |-> callback]}
  /\ emitted' = <<>>
  /\ raised' = "none"
  /\ lastOp' = "on"
  /\ UNCHANGED othersOfEmitter

\* unsubscribe()
Unsubscribe(unsubscribe) ==
  /\ example = "emitter"
  /\ unsubscribe \in unsubscribers
  /\ \E r \in {EventEmitter_unsubscribe(events, unsubscribe.eventName,
                                         unsubscribe.callback)} :
       /\ events' = r.events
       /\ raised' = IF r.threw THEN TypeError ELSE "none"
  /\ emitted' = <<>>
  /\ lastOp' = "unsubscribe"
  /\ UNCHANGED <<unsubscribers, othersOfEmitter>>

\* emitter.emit(eventName)
Emit(eventName) ==
  /\ example = "emitter"
  /\ emitted' = EventEmitter_emit(events, eventName)
  /\ raised' = "none"
  /\ lastOp' = "emit"
  /\ UNCHANGED <<events, unsubscribers, othersOfEmitter>>

\* emitter.removeAllListeners(eventName) / emitter.removeAllListeners()
RemoveAllListeners(eventName) ==
  /\ example = "emitter"
  /\ events' = EventEmitter_removeAllListeners(events, eventName)
  /\ emitted' = <<>>
  /\ raised' = "none"
  /\ lastOp' = "removeAllListeners"
  /\ UNCHANGED <<unsubscribers, othersOfEmitter>>

\* ------------------------------------------------------------------------
\* Payment demonstration: the client's calls on the modern adapters
\* ------------------------------------------------------------------------
othersOfAdapter == <<example, varsEditor, varsGame, varsObserver, varsCoffee,
    varsComposite, varsSingleton, varsProxy, varsBuilder, varsPrototype,
    varsEmitter,
    varsBridge>>

\* Time passes between two calls
Tick ==
  /\ example = "payment"
  /\ clock < MaxClock
  /\ clock' = clock + 1
  /\ UNCHANGED <<adapters, payments, apiCalls, response, lastOp, raised,
                 othersOfAdapter>>

\* adapters[name].processPayment(amount, currency, paymentDetails)
ProcessPayment(name, amount, paymentDetails) ==
  /\ example = "payment"
  /\ Len(payments) < MaxPayments
  /\ \E id \in IntentIds, random \in 0 .. MaxRandom :
       \E r \in {ModernPaymentAdapter_processPayment(adapters[name], amount,
                     paymentDetails, id, clock, random)} :
         /\ adapters' = [adapters EXCEPT ![name] = r.adapter]
         /\ apiCalls' = r.calls
         /\ response' = r.value
         /\ raised' = r.threw
         /\ payments' = IF r.threw = "none"
                         THEN Append(payments,
                                [adapter |-> name,
                                 transactionId |-> r.value.transactionId,
                                 intentId |-> id])
                         ELSE payments
  /\ lastOp' = "processPayment"
  /\ UNCHANGED <<clock, othersOfAdapter>>

\* adapters[name].refundPayment(transactionId, amount)
RefundPayment(name, transactionId, amount) ==
  /\ example = "payment"
  /\ \E r \in {ModernPaymentAdapter_refundPayment(adapters[name],
                   transactionId, amount)} :
       /\ adapters' = [adapters EXCEPT ![name] = r.adapter]
       /\ apiCalls' = r.calls
       /\ response' = r.value
       /\ raised' = r.threw
  /\ lastOp' = "refundPayment"
  /\ UNCHANGED <<clock, payments, othersOfAdapter>>

\* adapters[name].verifyPayment(transactionId)
VerifyPayment(name, transactionId) ==
  /\ example = "payment"
  /\ \E r \in {ModernPaymentAdapter_verifyPayment(adapters[name],
                   transactionId)} :
       /\ adapters' = [adapters EXCEPT ![name] = r.adapter]
       /\ apiCalls' = r.calls
       /\ response' = r.value
       /\ raised' = r.threw
  /\ lastOp' = "verifyPayment"
  /\ UNCHANGED <<clock, payments, othersOfAdapter>>

\* ------------------------------------------------------------------------
\* Remote control demonstration: the operations of the universal remote
\* ------------------------------------------------------------------------
othersOfBridge == <<example, varsEditor, varsGame, varsObserver, varsCoffee,
    varsComposite, varsOutcome, varsSingleton, varsProxy, varsBuilder,
    varsPrototype, varsEmitter, varsAdapter>>

\* An operation of the remote on this.device leaves it as `device`
Press(op, device) ==
  /\ example = "remote"
  /\ presses < MaxPresses
  /\ presses' = presses + 1
  /\ devices' = [devices EXCEPT ![currentDeviceIndex + 1] = device]
  /\ lastOp' = op
  /\ UNCHANGED <<currentDeviceIndex, othersOfBridge>>

ThisDevice == devices[currentDeviceIndex + 1]

Power == Press("power", RemoteControl_power(ThisDevice))
VolumeUp(amount) == Press("volumeUp", RemoteControl_volumeUp(ThisDevice, amount))
VolumeDown(amount) ==
  Press("volumeDown", RemoteControl_volumeDown(ThisDevice, amount))
SetChannel(channel) ==
  Press("setChannel", RemoteControl_setChannel(ThisDevice, channel))
Mute == Press("mute", AdvancedRemoteControl_mute(ThisDevice))
ChannelUp == Press("channelUp", AdvancedRemoteControl_channelUp(ThisDevice))
ChannelDown == Press("channelDown", AdvancedRemoteControl_channelDown(ThisDevice))
PerformSpecialAction ==
  Press("performSpecialAction",
        AdvancedRemoteControl_performSpecialAction(ThisDevice))

SwitchDevice ==
  /\ example = "remote"
  /\ presses < MaxPresses
  /\ presses' = presses + 1
  /\ currentDeviceIndex' =
       UniversalRemoteControl_switchDevice(currentDeviceIndex, devices)
  /\ lastOp' = "switchDevice"
  /\ UNCHANGED <<devices, othersOfBridge>>

MasterPower(on) ==
  /\ example = "remote"
  /\ presses < MaxPresses
  /\ presses' = presses + 1
  /\ devices' = UniversalRemoteControl_masterPower(devices, on)
  /\ lastOp' = "masterPower"
  /\ UNCHANGED <<currentDeviceIndex, othersOfBridge>>

\* ------------------------------------------------------------------------
\* Specifications
\* ------------------------------------------------------------------------
vars == <<example, lastOp, varsEditor, varsGame, varsObserver, varsCoffee,
          varsComposite,
          varsOutcome,
          varsSingleton,
          varsProxy,
          varsBuilder,
          varsPrototype,
          varsEmitter,
          varsAdapter,
          varsBridge>>

InitAll ==
  /\ lastOp = "init"
  /\ InitEditor
  /\ InitGame
  /\ InitObserver
  /\ InitCoffee
  /\ InitComposite
  /\ InitOutcome
  /\ InitSingleton
  /\ InitProxy
  /\ InitBuilder
  /\ InitPrototype
  /\ InitEmitter
  /\ InitAdapter
  /\ InitBridge

\* The caretaker: the editor's history under undo and redo
InitHistory == example = "editor" /\ InitAll

NextHistory ==
  \/ \E text \in HistoryTexts : Write(text)
  \/ SaveAndPush
  \/ Undo
  \/ Redo
  \/ \E index \in -1 .. MaxStates : GoToState(index)
  \/ Clear

SpecHistory == InitHistory /\ [][NextHistory]_vars

\* The originators: an editor or a character, and one memento of it
InitOriginator == example \in {"editor", "character"} /\ InitAll

NextOriginator ==
  \/ \E text \in Texts : Write(text)
  \/ \E count \in Counts : Delete(count)
  \/ \E startPosition, endPosition \in Positions : Select(startPosition, endPosition)
  \/ \E position \in Positions : MoveCursor(position)
  \/ \E font \in Fonts : ChangeFont(font)
  \/ Save
  \/ Restore
  \/ \E p \in Points : MoveTo(p.x, p.y)
  \/ \E amount \in Damages : TakeDamage(amount)
  \/ \E amount \in Heals : Heal(amount)
  \/ \E exp \in Exps : GainExperience(exp)
  \/ \E item \in Items : AddItem(item)
  \/ \E item \in Items : RemoveItem(item)
  \/ \E skill \in Skills : LearnSkill(skill)
  \/ CharacterSave
  \/ CharacterRestore

SpecOriginator == InitOriginator /\ [][NextOriginator]_vars

\* The save manager: a character and its list of saves
InitSaveManager == example = "character" /\ InitAll

NextSaveManager ==
  \/ \E p \in Points : MoveTo(p.x, p.y)
  \/ \E amount \in Damages : TakeDamage(amount)
  \/ \E amount \in Heals : Heal(amount)
  \/ \E exp \in Exps : GainExperience(exp)
  \/ \E item \in Items : AddItem(item)
  \/ \E item \in Items : RemoveItem(item)
  \/ \E skill \in Skills : LearnSkill(skill)
  \/ \E label \in LabelArgs : SaveCharacter(label)
  \/ \E index \in -1 .. MaxSaves : LoadCharacter(index)
  \/ \E name \in {"Hero", "Nobody"}, index \in -1 .. MaxSaves : DeleteSave(name, index)

SpecSaveManager == InitSaveManager /\ [][NextSaveManager]_vars

\* The subjects: a weather station or a stock market and their observers
InitObservers == example \in {"weather", "market"} /\ InitAll

NextObservers ==
  \/ \E o \in Observers : WeatherAttach(o)
  \/ \E o \in Observers : WeatherDetach(o)
  \/ WeatherNotify
  \/ \E cb \in Callbacks : WeatherUpdate(cb)
  \/ WeatherNotified
  \/ \E o \in Observers, stocks \in StockLists : MarketAttach(o, stocks)
  \/ \E o \in Observers : MarketDetach(o)
  \/ \E symbol \in Symbols : MarketNotify(symbol)
  \/ \E cb \in Callbacks : MarketUpdate(cb)
  \/ MarketNotified

SpecObservers == InitObservers /\ [][NextObservers]_vars

\* The coffee orders
InitCoffeeShop == example = "coffee" /\ InitAll

NextCoffeeShop ==
  \/ NewCoffee
  \/ \E kind \in Decorators : Decorate(kind)

SpecCoffeeShop == InitCoffeeShop /\ [][NextCoffeeShop]_vars

\* The singleton
InitSingletonClient == example = "singleton" /\ InitAll

NextSingletonClient ==
  \/ GetInstance
  \/ NewSingleton
  \/ \E k \in 1 .. MaxObjects, value \in Datas : SetData(k, value)

SpecSingleton == InitSingletonClient /\ [][NextSingletonClient]_vars

\* The proxy, made with any access level
InitProxyClient == example = "proxy" /\ InitAll

NextProxyClient ==
  \/ \E query \in Queries : GetData(query)
  \/ \E data \in SaveArgs : SaveData(data)
  \/ Close
  \/ ClearCache
  \/ \E slot \in 1 .. MaxInFlight :
       \/ Connected(slot)
       \/ QueryDone(slot)
       \/ SaveDone(slot)
       \/ Disconnected(slot)

SpecProxy == InitProxyClient /\ [][NextProxyClient]_vars

\* The builder and its director
InitCarShop == example = "builder" /\ InitAll

NextCarShop ==
  \/ \E call \in ClientCalls : BuilderCall(call)
  \/ Build
  \/ \E kind \in {"economy", "luxury", "sports"} : Construct(kind)

SpecCarShop == InitCarShop /\ [][NextCarShop]_vars

\* The document templates, their registry and their clones
InitDocuments == example = "prototype" /\ InitAll

NextDocuments ==
  \/ \E template \in Templates : NewDocument(template)
  \/ \E key \in RegistryKeys, document \in Documents :
       RegisterDocument(key, document)
  \/ \E key \in RegistryKeys : UnregisterDocument(key)
  \/ \E key \in RegistryKeys, customizations \in Customizations :
       CreateDocument(key, customizations)
  \/ \E document \in Documents : Clone(document)
  \/ \E document \in Documents, newContent \in Contents :
       Edit(document, newContent)
  \/ \E document \in Documents, tag \in Tags : AddTag(document, tag)
  \/ \E document \in Documents, key \in MetadataKeys,
        value \in MetadataValues : SetMetadata(document, key, value)

SpecDocuments == InitDocuments /\ [][NextDocuments]_vars

\* The caretakers of both demonstrations, called with any index
InitCaretakers == example \in {"editor", "character"} /\ InitAll

NextCaretakers ==
  \/ NextHistory
  \/ \E amount \in Damages : TakeDamage(amount)
  \/ \E item \in Items : AddItem(item)
  \/ \E label \in LabelArgs : SaveCharacter(label)
  \/ \E index \in -1 .. MaxSaves : LoadCharacter(index)
  \/ \E name \in {"Hero", "Nobody"}, index \in -1 .. MaxSaves : DeleteSave(name, index)

SpecCaretakers == InitCaretakers /\ [][NextCaretakers]_vars

\* The event emitter, its listeners and their unsubscribe functions
InitEvents == example = "emitter" /\ InitAll

NextEvents ==
  \/ \E eventName \in EventNames, callback \in Listeners : On(eventName, callback)
  \/ \E unsubscribe \in unsubscribers : Unsubscribe(unsubscribe)
  \/ \E eventName \in EventNames : Emit(eventName)
  \/ \E eventName \in RemoveArgs : RemoveAllListeners(eventName)

SpecEvents == InitEvents /\ [][NextEvents]_vars

\* The modern payment adapters and their clients
InitPayments == example = "payment" /\ InitAll

NextPayments ==
  \/ Tick
  \/ \E name \in AdapterNames, amount \in Amounts, paymentDetails \in PaymentDetails :
       ProcessPayment(name, amount, paymentDetails)
  \/ \E name \in AdapterNames, transactionId \in TransactionIds, amount \in Amounts :
       RefundPayment(name, transactionId, amount)
  \/ \E name \in AdapterNames, transactionId \in TransactionIds :
       VerifyPayment(name, transactionId)

SpecPayments == InitPayments /\ [][NextPayments]_vars

\* The universal remote and its three devices
InitRemote == example = "remote" /\ InitAll

NextRemote ==
  \/ Power
  \/ \E amount \in VolumeAmounts : VolumeUp(amount)
  \/ \E amount \in VolumeAmounts : VolumeDown(amount)
  \/ \E channel \in ChannelInputs : SetChannel(channel)
  \/ Mute
  \/ ChannelUp
  \/ ChannelDown
  \/ PerformSpecialAction
  \/ SwitchDevice
  \/ \E on \in BOOLEAN : MasterPower(on)

SpecRemote == InitRemote /\ [][NextRemote]_vars

\* The file system
InitFileSystem == example = "composite" /\ InitAll

NextFileSystem ==
  \/ \E d \in Directories, component \in Components : Add(d, component)
  \/ \E d \in Directories, component \in Components : Remove(d, component)

SpecFileSystem == InitFileSystem /\ [][NextFileSystem]_vars

\* ------------------------------------------------------------------------
\* Properties of the Memento demonstration
\* ------------------------------------------------------------------------

\* C1 -- round trip: after push(S0) .. push(Sk) on an empty history, the i-th
\* of k consecutive undos returns S(k-i) and the j-th of the k following
\* redos returns S(j), and the editor restored from the returned memento is
\* in the state in which that memento was saved.
C1_RoundTrip ==
  /\ (lastOp = "undo" /\ rt.phase = "undo")
       => /\ ret = rt.S[RtK(rt) - rt.i + 1].memento
          /\ editor = rt.S[RtK(rt) - rt.i + 1].state
  /\ (lastOp = "redo" /\ rt.phase = "redo")
       => /\ ret = rt.S[rt.j + 1].memento
          /\ editor = rt.S[rt.j + 1].state

\* A round trip with k = 2 over three different states, at its last redo
C1_Witness ==
  /\ lastOp = "redo" /\ rt.phase = "redo"
  /\ RtK(rt) = 2 /\ rt.j = 2
  /\ Cardinality({rt.S[n].state : n \in 1 .. 3}) = 3

\* C2 -- undo with the cursor at index 0 (or on an empty history) and redo
\* with the cursor at the last index return null and change neither the
\* history nor the editor.
C2_NoOpAtEnds ==
  [][/\ (lastOp' = "undo" /\ history.currentStateIndex <= 0)
          => (ret' = NULL /\ history' = history /\ editor' = editor)
     /\ (lastOp' = "redo" /\ history.currentStateIndex = Len(history.states) - 1)
          => (ret' = NULL /\ history' = history /\ editor' = editor)]_vars

\* A redo refused at the end of a history of several states
C2_Witness ==
  /\ lastOp = "redo" /\ ret = NULL
  /\ Len(history.states) >= 2
  /\ history.currentStateIndex = Len(history.states) - 1

\* C3 -- once a memento has been created its stored fields never change:
\* every GameCharacterMemento holds what its constructor stored.
C3_MementoFieldsNeverChange ==
  \A i \in DOMAIN mementos : MementoFields(mementos[i], heap) = created[i]

\* C4 -- snapshot isolation: restoring the memento m taken in state X puts
\* the originator back in exactly X, whatever was done to the originator
\* between the save and the restore (earlier restores of m included).
C4_SnapshotIsolation ==
  /\ (example = "editor" /\ lastOp = "restore" /\ m # NULL) => editor = snapE
  /\ (example = "character" /\ lastOp = "restore" /\ gm # NULL)
       => CharacterState(hero, heap) = snapG

\* A character restored to a snapshot taken with an item, a skill and a wound
C4_Witness ==
  /\ example = "character" /\ lastOp = "restore" /\ gm # NULL
  /\ snapG.inventory # <<>> /\ snapG.skills # <<>> /\ snapG.health < 100
  /\ snapG.level > 1

\* ------------------------------------------------------------------------
\* Properties of the Observer demonstration
\* ------------------------------------------------------------------------
Range(seq) == {seq[i] : i \in 1 .. Len(seq)}
Count(seq, x) == Cardinality({i \in 1 .. Len(seq) : seq[i] = x})
NoDuplicates(seq) == \A i, j \in 1 .. Len(seq) : seq[i] = seq[j] => i = j
\* The observers updated by the latest notify(), in the order of the calls
UpdatedAt(p) == log[p].call = "update"

\* C5 -- a detach at any point, also from inside update() while notify()
\* iterates, stops further notifications to the detached observer and makes
\* no other observer miss one: every observer of the WeatherStation that
\* stays attached receives update() exactly once per notify().
C5_DetachKeepsOthersNotified ==
  example = "weather" =>
    /\ \A p, q \in 1 .. Len(log) :
         (p < q /\ log[p].call = "detach") => log[q] # Update(log[p].observer)
    /\ lastOp = "notified" =>
         \A o \in Range(atStart) :
           Count(log, Detached(o)) = 0 => Count(log, Update(o)) = 1

\* C6 -- attaching an observer again does not duplicate notifications: each
\* observer is at most once in a subject's collection and receives at most
\* one update() per notify(), for the WeatherStation and the StockMarket.
C6_NoDuplicateNotifications ==
  /\ NoDuplicates(weather.observers)
  /\ NoDuplicates(MapKeys(market.observers))
  /\ \A o \in Observers : Count(log, Update(o)) <= 1

\* A notify() has ended that updated, once, an observer attached twice over
C6_Witness ==
  /\ example = "weather" /\ lastOp = "notified"
  /\ \E i \in 1 .. Len(attachOrder) :
       attachOrder[i].again /\ Count(log, Update(attachOrder[i].observer)) = 1

\* C7 -- within one notify(), observers are updated in the order in which
\* they were attached: of two attached observers, the one whose attach came
\* first is updated first.
C7_NotificationOrder ==
  lastOp \in {"update", "notified"} =>
  \A p, q \in 1 .. Len(log) :
    (/\ p < q /\ UpdatedAt(p) /\ UpdatedAt(q)
     /\ OrderHas(attachOrder, log[p].observer)
     /\ OrderHas(attachOrder, log[q].observer))
      => OrderPos(attachOrder, log[p].observer) < OrderPos(attachOrder, log[q].observer)

\* A notify() of the StockMarket has ended that updated three observers,
\* one of them attached a second time after the others
C7_Witness ==
  /\ example = "market" /\ lastOp = "notified"
  /\ Cardinality({p \in 1 .. Len(log) : UpdatedAt(p)}) = 3
  /\ Len(attachOrder) = 3 /\ attachOrder[1].again

\* ------------------------------------------------------------------------
\* Properties of the Decorator demonstration
\* ------------------------------------------------------------------------
\* The prices the source's comments state, in cents
BaseCents == 200
IncrementCents(kind) ==
  CASE kind = "Milk" -> 50
    [] kind = "Sugar" -> 20
    [] kind = "WhippedCream" -> 70
    [] kind = "VanillaSyrup" -> 60
Suffix(kind) ==
  CASE kind = "Milk" -> ", with milk"
    [] kind = "Sugar" -> ", with sugar"
    [] kind = "WhippedCream" -> ", with whipped cream"
    [] kind = "VanillaSyrup" -> ", with vanilla syrup"
RECURSIVE SumCents(_)
SumCents(chain) ==
  IF chain = <<>> THEN 0 ELSE IncrementCents(Head(chain)) + SumCents(Tail(chain))

\* C8 -- for any chain of decorators around a SimpleCoffee, getCost() equals
\* the base cost plus the sum of the decorators' increments, and
\* getDescription() is the base description followed by each decorator's
\* suffix in the order of application.
C8_CostIsSumOfIncrements ==
  /\ Coffee_getCost(coffee) = DoubleOfCents(BaseCents + SumCents(coffee))
  /\ Coffee_getDescription(coffee)
       = <<"Simple coffee">> \o [i \in 1 .. Len(coffee) |-> Suffix(coffee[i])]

\* ------------------------------------------------------------------------
\* Properties of the Composite demonstration
\* ------------------------------------------------------------------------
\* The components that are children of a member of S
ChildrenOf(S) ==
  {c \in Components :
     \E d \in S : ~Component_isLeaf(fs[d]) /\ Includes(fs[d].children, c)}
RECURSIVE Closure(_, _)
Closure(S, n) == IF n = 0 THEN S ELSE Closure(S \cup ChildrenOf(S), n - 1)
\* The components reachable below d
Below(d) == Closure(ChildrenOf({d}), Cardinality(Components))
FilesBelow(d) == {c \in Below(d) : fs[c].class = "File"}
RECURSIVE SumOfSizes(_)
SumOfSizes(S) ==
  IF S = {} THEN 0
  ELSE LET c == CHOOSE x \in S : TRUE IN fs[c].size + SumOfSizes(S \ {c})

\* C9 -- after any sequence of add and remove calls, getSize() of a
\* directory returns the sum of the sizes of all File leaves currently
\* reachable below it, 0 for an empty directory.
C9_SizeIsSumOfLeaves ==
  \A d \in Directories :
    LET size == Directory_getSize(fs, d)
    IN /\ ~size.threw
       /\ size.value = SumOfSizes(FilesBelow(d))

\* C10 -- findByExtension(ext) of a directory returns exactly the File
\* leaves at any depth below it, also inside ProjectDirectory nodes, whose
\* name ends with ext: never a directory, and no matching file is omitted.
C10_FindByExtensionExact ==
  \A d \in Directories, extension \in Extensions :
    LET found == Directory_findByExtension(fs, d, extension)
    IN /\ ~found.threw
       /\ Range(found.value)
            = {c \in FilesBelow(d) : EndsWith(fs[c].name, extension)}

\* C11 -- after any sequence of add and remove calls the components form a
\* tree: no directory is its own descendant, and no component is a child of
\* more than one directory.
C11_StructureIsTree ==
  /\ \A d \in Directories : d \notin Below(d)
  /\ \A c \in Components :
       Cardinality({d \in Directories : Includes(fs[d].children, c)}) <= 1

\* ------------------------------------------------------------------------
\* Properties of the Singleton demonstration
\* ------------------------------------------------------------------------
\* C12 -- any two calls of getInstance(), at any points of any sequence of
\* operations, return the identical instance.
C12_SameInstance ==
  \A i, j \in 1 .. Len(returned) : returned[i] = returned[j]

\* Two calls, with direct constructions before them and a write between
C12_Witness ==
  /\ Len(returned) >= 2
  /\ Len(singletons) >= 2
  /\ lastOp = "getInstance"
  /\ singletons[returned[1].id].data # UNDEFINED

\* C13 -- across any sequence of getInstance() and new Singleton() calls at
\* most one Singleton object is ever successfully constructed.
C13_AtMostOneConstructed == Len(singletons) <= 1

\* C14 -- once getInstance() has been called, every direct new Singleton()
\* throws and leaves Singleton.instance unchanged.
C14_NewAfterGetInstanceThrows ==
  [][(returned # <<>> /\ lastOp' = "new")
       => (raised' = "Error" /\ instance' = instance
           /\ singletons' = singletons)]_vars

C14_Witness ==
  /\ returned # <<>>
  /\ lastOp = "new"
  /\ raised = "Error"

\* ------------------------------------------------------------------------
\* Properties of the Proxy demonstration
\* ------------------------------------------------------------------------
\* C15 -- every saveData that is forwarded to the real database and completes
\* leaves the cache empty: no entry cached before the write is left, and
\* the next getData for a query, also one cached before the write, is a
\* cache miss that is forwarded to the real database.
C15_WriteInvalidatesCache ==
  [][/\ lastOp' = "saveData:done" => proxy'.cache = Map_clear
     /\ DOMAIN proxy'.cache \subseteq sinceSave'.cached
     /\ (lastOp' = "getData" /\ event'.arg \notin sinceSave.cached)
          => /\ event'.outcome = "miss"
             /\ proxy'.cacheMisses = proxy.cacheMisses + 1
             /\ proxy'.cacheHits = proxy.cacheHits
             /\ store'.forwarded = store.forwarded + 1]_vars

\* A getData for a query that the write removed from the cache
C15_Witness ==
  /\ lastOp = "getData"
  /\ event.arg \in sinceSave.invalidated
  /\ event.arg \notin sinceSave.cached
  /\ event.outcome = "miss"

\* C16 -- the real DatabaseSource is constructed lazily and at most once:
\* realDatabase is null until the first getData cache miss or the first
\* saveData that passes the access and data checks; cache hits, denied
\* writes and invalid writes never construct it; every forwarded call uses
\* the same object.
LazyOnce ==
  /\ Len(sources) <= 1
  /\ proxy.realDatabase = NULL <=> store.forwarded = 0
  /\ proxy.realDatabase = NULL <=> sources = <<>>
  /\ \A slot \in 1 .. MaxInFlight :
       inflight[slot] # IDLE => inflight[slot].database = proxy.realDatabase
C16_LazyRealDatabase ==
  [][/\ LazyOnce'
     /\ event'.outcome \in {"hit", "denied", "invalid"}
          => (sources' = sources /\ proxy'.realDatabase = proxy.realDatabase)
     /\ proxy.realDatabase # NULL => proxy'.realDatabase = proxy.realDatabase]_vars

\* Hits, a refused write and several forwarded calls on the one database
C16_Witness ==
  /\ Len(sources) = 1
  /\ store.forwarded >= 3
  /\ proxy.cacheHits >= 1
  /\ store.version >= 1

\* C17 -- saveData on a proxy whose accessLevel is not 'write' raises an
\* access-denied error and leaves the real database untouched (not
\* constructed, not called) and the cache and the counters unchanged.
C17_DeniedWriteChangesNothing ==
  [][(lastOp' = "saveData" /\ proxy.accessLevel # "write")
       => /\ raised' = "Access denied"
          /\ event'.outcome = "denied"
          /\ sources' = sources
          /\ store' = store
          /\ inflight' = inflight
          /\ proxy'.realDatabase = proxy.realDatabase
          /\ proxy'.cache = proxy.cache
          /\ proxy'.cacheHits = proxy.cacheHits
          /\ proxy'.cacheMisses = proxy.cacheMisses]_vars

\* A refused write on a proxy that holds cached results
C17_Witness ==
  /\ lastOp = "saveData"
  /\ raised = "Access denied"
  /\ proxy.accessLevel = "read"
  /\ proxy.cache # Map_clear

\* ------------------------------------------------------------------------
\* Properties of the Builder demonstration
\* ------------------------------------------------------------------------
\* The last argument of the calls of `op`, `default` when there is none
LastArg(calls, op, default) ==
  LET at == {i \in 1 .. Len(calls) : calls[i].op = op}
  IN IF at = {} THEN default
     ELSE calls[CHOOSE i \in at : \A j \in at : j <= i].arg
\* The arguments of the calls of `op`, in order
RECURSIVE Args(_, _)
Args(calls, op) ==
  IF calls = <<>> THEN <<>>
  ELSE IF Head(calls).op = op
       THEN <<Head(calls).arg>> \o Args(Tail(calls), op)
       ELSE Args(Tail(calls), op)
\* A car that holds what the calls set and defaults in every other field
OnlyWhatWasSet(calls) ==
  [make |-> LastArg(calls, "setMake", ""),
   model |-> LastArg(calls, "setModel", ""),
   year |-> LastArg(calls, "setYear", 0),
   color |-> LastArg(calls, "setColor", ""),
   engine |-> LastArg(calls, "setEngine", ""),
   transmission |-> LastArg(calls, "setTransmission", ""),
   features |-> Args(calls, "addFeature"),
   safetyOptions |-> Args(calls, "addSafetyOption"),
   interiorPackage |-> LastArg(calls, "setInteriorPackage", ""),
   navigationSystem |-> \E i \in 1 .. Len(calls) :
                          calls[i].op = "includeNavigationSystem",
   warranties |-> Args(calls, "addWarranty")]

\* C18 -- build() resets the builder: a returned Car is never modified by a
\* later call on the builder, and the next build() returns a distinct Car
\* that holds only what was set since the previous build(), every other
\* field at its default.
C18_BuildResets ==
  /\ \A i \in 1 .. Len(built) :
       /\ cars[built[i].ref.id] = built[i].car
       /\ built[i].ref # builder.car
       /\ built[i].by = "client" => built[i].car = OnlyWhatWasSet(built[i].calls)
  /\ \A i, j \in 1 .. Len(built) : built[i].ref = built[j].ref => i = j
  /\ cars[builder.car.id] = OnlyWhatWasSet(since)

\* Two cars built one after the other with different settings, and the
\* builder in use again
C18_Witness ==
  /\ Len(built) = 2
  /\ built[1].by = "client" /\ built[2].by = "client"
  /\ built[1].calls # <<>> /\ built[2].calls # <<>>
  /\ built[1].car # built[2].car
  /\ since # <<>>

\* The presets of the director
Preset(kind) ==
  CASE kind = "economy" ->
         [make |-> "Honda", model |-> "Civic", year |-> 2023, color |-> "Silver",
          engine |-> "1.5L 4-Cylinder", transmission |-> "CVT",
          features |-> <<"Bluetooth", "Backup Camera">>,
          safetyOptions |-> <<"Anti-lock Brakes", "Airbags">>,
          interiorPackage |-> "Cloth Standard", navigationSystem |-> FALSE,
          warranties |-> <<"3-year/36,000-mile basic">>]
    [] kind = "luxury" ->
         [make |-> "Mercedes-Benz", model |-> "S-Class", year |-> 2023,
          color |-> "Black", engine |-> "3.0L V6 Turbo",
          transmission |-> "9-speed Automatic",
          features |-> <<"Bluetooth", "Backup Camera", "Heated Seats", "Sunroof",
                         "Premium Sound System">>,
          safetyOptions |-> <<"Anti-lock Brakes", "Airbags",
                              "Lane Departure Warning", "Blind Spot Monitoring",
                              "Automatic Emergency Braking">>,
          interiorPackage |-> "Leather Premium", navigationSystem |-> TRUE,
          warranties |-> <<"4-year/50,000-mile basic", "10-year powertrain">>]
    [] kind = "sports" ->
         [make |-> "Porsche", model |-> "911", year |-> 2023, color |-> "Red",
          engine |-> "3.0L Twin-Turbo Flat-6", transmission |-> "8-speed PDK",
          features |-> <<"Sport Exhaust", "Sport Suspension",
                         "Performance Brakes", "Sport Chronograph">>,
          safetyOptions |-> <<"Anti-lock Brakes", "Airbags", "Stability Control">>,
          interiorPackage |-> "Sport Leather", navigationSystem |-> TRUE,
          warranties |-> <<"4-year/50,000-mile basic">>]

\* C19 -- each preset of the director is fixed: the car it returns has
\* exactly the preset's field values and lists, whatever calls were made
\* on the shared builder before.
C19_PresetsAreFixed ==
  \A i \in 1 .. Len(built) :
    built[i].by # "client" => built[i].car = Preset(built[i].by)

\* ------------------------------------------------------------------------
\* Properties of the Prototype demonstration
\* ------------------------------------------------------------------------
\* obj[key] as JavaScript reads it: undefined when the object has no such
\* property
Get(obj, key) == IF key \in DOMAIN obj THEN obj[key] ELSE UNDEFINED
\* Two objects read the same under every key
SameProperties(a, b) ==
  \A key \in DOMAIN a \cup DOMAIN b : Get(a, key) = Get(b, key)

\* A step that makes a document by clone() or createDocument leaves it
\* holding what the prototype held, overridden by the customizations
StartsAsPrototype ==
  (Len(memory'.documents) > Len(memory.documents) /\ origin'.by # "new") =>
    LET start == View(memory', Len(memory'.documents))
        expected == Overridden(View(memory, origin'.prototype),
                               origin'.customizations)
    IN /\ start.title = expected.title
       /\ start.content = expected.content
       /\ start.author = expected.author
       /\ start.tags = expected.tags
       /\ SameProperties(start.metadata, expected.metadata)

\* A step changes what at most one document holds: a call on one document
\* changes no other document
Independent ==
  \A d, e \in Documents :
    (View(memory', d) # View(memory, d) /\ View(memory', e) # View(memory, e))
      => d = e

\* C20 -- a document from Document.clone() or from createDocument(key,
\* customizations) starts with the prototype's title, content, author, tags
\* and metadata, overridden by the customizations, and is independent of the
\* prototype: edit, addTag and setMetadata on the one never change the other.
C20_CloneStartsEqualAndIndependent ==
  [][StartsAsPrototype /\ Independent]_vars

\* ------------------------------------------------------------------------
\* Properties of the caretakers under invalid indices
\* ------------------------------------------------------------------------
\* index is no position of an array of this length
OutOfRange(index, length) == index < 0 \/ index >= length
\* The number of saves kept for a character, 0 when there is none
SavesFor(characterName) ==
  IF characterName \in DOMAIN saveManager.savedGames
  THEN Len(saveManager.savedGames[characterName])
  ELSE 0
\* This step is goToState(index) / loadCharacter(hero, index) /
\* deleteSave(characterName, index) with an index out of range
InvalidGoToState(index) ==
  /\ lastOp' = "goToState"
  /\ OutOfRange(index, Len(history.states))
  /\ GoToState(index)
InvalidLoadCharacter(index) ==
  /\ lastOp' = "loadCharacter"
  /\ OutOfRange(index, SavesFor(hero.name))
  /\ LoadCharacter(index)
InvalidDeleteSave(characterName, index) ==
  /\ lastOp' = "deleteSave"
  /\ OutOfRange(index, SavesFor(characterName))
  /\ DeleteSave(characterName, index)

\* C22 -- an out-of-range index passed to EditorHistory.goToState,
\* SaveManager.loadCharacter or SaveManager.deleteSave raises an error.
C22_InvalidIndexRaises ==
  [][/\ \A index \in -1 .. MaxStates : InvalidGoToState(index) => raised' # "none"
     /\ \A index \in -1 .. MaxSaves :
          InvalidLoadCharacter(index) => raised' # "none"
     /\ \A characterName \in {"Hero", "Nobody"}, index \in -1 .. MaxSaves :
          InvalidDeleteSave(characterName, index) => raised' # "none"]_vars

\* C22, amended -- an out-of-range index raises no error: goToState returns
\* null and leaves the history as it was, loadCharacter leaves the
\* character as it was, deleteSave leaves the saves as they were.
C22_InvalidIndexIsIgnored ==
  [][/\ \A index \in -1 .. MaxStates :
          InvalidGoToState(index) =>
            /\ raised' = "none"
            /\ ret' = NULL
            /\ history' = history /\ editor' = editor
     /\ \A index \in -1 .. MaxSaves :
          InvalidLoadCharacter(index) =>
            /\ raised' = "none"
            /\ hero' = hero /\ heap' = heap /\ saveManager' = saveManager
     /\ \A characterName \in {"Hero", "Nobody"}, index \in -1 .. MaxSaves :
          InvalidDeleteSave(characterName, index) =>
            /\ raised' = "none"
            /\ saveManager' = saveManager /\ mementos' = mementos
            /\ hero' = hero]_vars

\* goToState refused on a history of several states
C22_Witness ==
  /\ lastOp = "goToState" /\ ret = NULL
  /\ Len(history.states) >= 2
  /\ history.currentStateIndex = 1

\* ------------------------------------------------------------------------
\* Properties of EditorHistory and TextEditor, continued
\* ------------------------------------------------------------------------
\* C23 -- push discards the redo future: immediately after any push the
\* pushed memento is the last element of states, currentStateIndex =
\* states.length - 1, every memento that was above the cursor before the
\* push is gone, and redo() returns null.
C23_PushDiscardsFuture ==
  [][/\ lastOp' = "push" =>
          LET pushed == TextEditor_save(editor)
              below == SubSeq(history.states, 1, history.currentStateIndex + 1)
          IN /\ history'.states[Len(history'.states)] = pushed
             /\ history'.currentStateIndex = Len(history'.states) - 1
             /\ history'.states = Append(below, pushed)
             /\ EditorHistory_redo(history').value = NULL
     /\ (lastOp = "push" /\ lastOp' = "redo") =>
          (ret' = NULL /\ history' = history)]_vars

\* A push made two undos back from the end, which removed two mementos
C23_Witness ==
  /\ lastOp = "push"
  /\ dropped = 2
  /\ Len(history.states) = 2

\* The cursor of the history is -1 on an empty list and a position of the
\* list otherwise
CursorConsistent ==
  /\ (history.currentStateIndex = -1) <=> (history.states = <<>>)
  /\ history.states # <<>> =>
       (0 <= history.currentStateIndex
          /\ history.currentStateIndex <= Len(history.states) - 1)

\* C26 -- in every reachable state of an EditorHistory under push, undo,
\* redo, goToState and clear, currentStateIndex = -1 exactly when states is
\* empty and otherwise 0 <= currentStateIndex <= states.length - 1; a
\* goToState with an index out of range leaves both unchanged.
C26_CursorConsistent ==
  /\ []CursorConsistent
  /\ [][\A index \in -1 .. MaxStates :
          (lastOp' = "goToState" /\ OutOfRange(index, Len(history.states))
             /\ GoToState(index))
            => history' = history]_vars

\* goToState refused on a full history whose cursor is on the first state
C26_Witness ==
  /\ lastOp = "goToState" /\ ret = NULL
  /\ Len(history.states) = MaxStates
  /\ history.currentStateIndex = 0

\* The cursor and the selection of the editor lie within its content
WithinContent ==
  /\ 0 <= editor.cursorPosition
  /\ editor.cursorPosition <= Len(editor.content)
  /\ 0 <= editor.selection.start
  /\ editor.selection.start <= editor.selection.end
  /\ editor.selection.end <= Len(editor.content)

\* C29 -- in every reachable state of a TextEditor under write, delete
\* (count >= 0), select, moveCursor, changeFont and restore of its own
\* mementos, 0 <= cursorPosition <= content.length and 0 <= selection.start
\* <= selection.end <= content.length; select and moveCursor with
\* out-of-range arguments leave the editor unchanged.
C29_CursorWithinContent ==
  /\ []WithinContent
  /\ [][/\ \A startPosition, endPosition \in Positions :
            (/\ lastOp' = "select"
             /\ (startPosition < 0 \/ endPosition > Len(editor.content))
             /\ Select(startPosition, endPosition))
              => editor' = editor
        /\ \A position \in Positions :
            (/\ lastOp' = "moveCursor"
             /\ (position < 0 \/ position > Len(editor.content))
             /\ MoveCursor(position))
              => editor' = editor]_vars

\* The editor put back by restore into a state with a selection that ends
\* at the end of the content
C29_Witness ==
  /\ example = "editor"
  /\ lastOp = "restore"
  /\ TextEditor_hasSelection(editor)
  /\ editor.selection.end = Len(editor.content)
  /\ Len(editor.content) = MaxContent

\* ------------------------------------------------------------------------
\* Properties of the Composite demonstration, continued
\* ------------------------------------------------------------------------
\* The components form a tree: no cycle, no component with two parents, no
\* component twice in one children array
TreeShaped ==
  /\ \A d \in Directories : d \notin Below(d)
  /\ \A c \in Components :
       Cardinality({d \in Directories : Includes(fs[d].children, c)}) <= 1
  /\ \A d \in Directories :
       Cardinality(Range(fs[d].children)) = Len(fs[d].children)
\* The directories that hold c
ParentsOf(c) == {d \in Directories : Includes(fs[d].children, c)}
\* The names on the chain from the root down to c, joined by '/'
RECURSIVE PathFromRoot(_)
PathFromRoot(c) ==
  IF ParentsOf(c) = {} THEN fs[c].name
  ELSE PathFromRoot(CHOOSE d \in ParentsOf(c) : TRUE) \o <<"/">> \o fs[c].name

\* C24 -- getPath() returns the full path of a component: for every
\* component reachable from a root directory it equals the names on the
\* chain from the root down to the component joined by '/', in whatever
\* order the add calls assembled the tree.
C24_PathIsChainFromRoot ==
  TreeShaped =>
    \A r \in Directories :
      ParentsOf(r) = {} =>
        \A c \in {r} \cup Below(r) : Component_getPath(fs[c]) = PathFromRoot(c)

\* C25 -- countDirectories() of a directory is the number of non-leaf
\* components (Directory or ProjectDirectory) below it at any depth, and
\* countFiles() + countDirectories() is the number of components below it.
C25_CountsAreExact ==
  TreeShaped =>
    \A d \in Directories :
      LET files == Directory_countFiles(fs, d, 1)
          directories == Directory_countDirectories(fs, d, 1)
      IN /\ ~files.threw /\ ~directories.threw
         /\ directories.value
              = Cardinality({c \in Below(d) : ~Component_isLeaf(fs[c])})
         /\ files.value + directories.value = Cardinality(Below(d))

\* ------------------------------------------------------------------------
\* Properties of the Proxy demonstration, continued
\* ------------------------------------------------------------------------
\* C27 -- when getData and saveData calls on the same proxy overlap in time,
\* the cache never holds a result that was read before a write that has
\* since completed: every cached result was built by the real database
\* after the last completed write.
C27_NoStaleEntrySurvives ==
  \A query \in DOMAIN proxy.cache :
    /\ proxy.cache[query].query = query
    /\ proxy.cache[query].version = store.version

\* A saveData has just completed and removed entries while a getData miss
\* is still waiting for the real database
C27_Witness ==
  /\ lastOp = "saveData:done"
  /\ sinceSave.invalidated # {}
  /\ \E slot \in 1 .. MaxInFlight :
       /\ inflight[slot] # IDLE
       /\ inflight[slot].op = "getData"
       /\ inflight[slot].pc = "querying"

\* ------------------------------------------------------------------------
\* Properties of the event emitter
\* ------------------------------------------------------------------------
\* The callbacks registered for an event, none when the Map has no such key
Registered(map, eventName) ==
  IF Map_has(map, eventName) THEN map[eventName] ELSE <<>>
\* The number of registrations of callback in an array
Registrations(callbacks, callback) ==
  Cardinality({i \in 1 .. Len(callbacks) : callbacks[i] = callback})

\* C28 -- the function returned by on(event, cb) is safe to call at any time
\* and any number of times: it never raises, also after
\* removeAllListeners(event) or removeAllListeners() has run, it removes at
\* most one registration of cb for that event, and it leaves every other
\* listener registered.
C28_UnsubscribeIsSafe ==
  [][\A unsubscribe \in unsubscribers :
       (lastOp' = "unsubscribe" /\ Unsubscribe(unsubscribe)) =>
         /\ raised' = "none"
         /\ \A eventName \in EventNames, callback \in Listeners :
              LET before == Registrations(Registered(events, eventName), callback)
                  after == Registrations(Registered(events', eventName), callback)
              IN IF eventName = unsubscribe.eventName
                    /\ callback = unsubscribe.callback
                 THEN after \in {before, before - 1}
                 ELSE after = before]_vars

\* ------------------------------------------------------------------------
\* Properties of the modern payment adapter
\* ------------------------------------------------------------------------
\* The payments of an adapter whose processPayment returned transactionId
PaymentsWith(name, transactionId) ==
  {i \in 1 .. Len(payments) :
     /\ payments[i].adapter = name
     /\ payments[i].transactionId = transactionId}

\* A step that is refundPayment or verifyPayment of transactionId on an adapter
RefundOrVerify(name, transactionId) ==
  \/ /\ lastOp' = "refundPayment"
     /\ \E amount \in Amounts : RefundPayment(name, transactionId, amount)
  \/ /\ lastOp' = "verifyPayment"
     /\ VerifyPayment(name, transactionId)

\* C21 -- refundPayment(id, _) and verifyPayment(id) succeed if and only if
\* id was returned by an earlier processPayment on the same adapter, and are
\* then forwarded with the intent id that processPayment created; for any
\* other id they raise an error and make no call to the wrapped API.
C21_KnownIdsAreForwarded ==
  [][\A name \in AdapterNames, transactionId \in TransactionIds :
       RefundOrVerify(name, transactionId) =>
         IF PaymentsWith(name, transactionId) # {}
         THEN /\ raised' = "none"
              /\ Len(apiCalls') = 1
              /\ \A i \in PaymentsWith(name, transactionId) :
                   apiCalls'[1].intentId = payments[i].intentId
         ELSE /\ raised' = "Error"
              /\ apiCalls' = <<>>]_vars

\* ------------------------------------------------------------------------
\* Properties of the devices behind the remote control
\* ------------------------------------------------------------------------
\* a number between low and high, both included
Within(value, low, high) == AtLeast(value, low) /\ AtMost(value, high)

VolumeInRange ==
  \A i \in 1 .. Len(devices) : Within(devices[i].volume, Num(0), Num(1000))
TvChannelInRange ==
  \A i \in 1 .. Len(devices) :
    devices[i].deviceType = "TV" =>
      Within(devices[i].channel, Num(10), devices[i].maxChannels)
\* A device that is OFF keeps its volume and its channel in this step
OffKeepsSettings ==
  \A i \in 1 .. Len(devices) :
    ~devices[i].isOn =>
      /\ devices'[i].volume = devices[i].volume
      /\ devices'[i].channel = devices[i].channel

\* C30 -- under any sequence of operations of the remote control (power,
\* volumeUp/Down with any amount, mute, setChannel, channelUp/Down,
\* switchDevice, masterPower) the volume of each device stays within 0..100,
\* the channel of a TV stays within 1..maxChannels, and a device that is OFF
\* keeps its volume and channel at every setVolume and setChannel request.
C30_DevicesStayInRange ==
  /\ [](VolumeInRange /\ TvChannelInRange)
  /\ [][OffKeepsSettings]_vars

====
